---- MODULE Spec2Model ----
(***************************************************************************)
(* Model of VuNe/json-parser: the lexer (internal/lexer), the recursive    *)
(* descent parser (internal/parser/parser.go) and the error type.          *)
(* Bytes are numbers 0..255, strings are sequences of bytes.  A Go index   *)
(* s[i] is the TLA+ index s[i + 1].                                        *)
(***************************************************************************)
EXTENDS Integers, Sequences, FiniteSets, TLC

(***************************************************************************)
(* Byte values of the characters the lexer names.                          *)
(***************************************************************************)
ASCII ==
  [c \in {"\t", "\n", "\f", "\r", " ", "\"", "#", "+", ",", "-", ".", "/",
          "0", "1", "2", "3", "4", "5", "6", "7", "8", "9", ":",
          "A", "B", "C", "D", "E", "F", "G", "T", "Z", "[", "\\", "]",
          "H", "I", "K", "L", "M", "N", "O", "R", "S", "U", "V", "_",
          "g", "h", "i", "m", "o", "p", "w", "'", "(", ")", "|", "^",
          "a", "b", "c", "d", "e", "f", "j", "k", "l", "n", "q", "r", "s", "t",
          "u", "v", "x", "y", "z", "{", "}"} |->
     CASE c = "\t" -> 9   [] c = "\n" -> 10  [] c = "\f" -> 12  [] c = "\r" -> 13
       [] c = " " -> 32   [] c = "\"" -> 34  [] c = "#" -> 35   [] c = "+" -> 43
       [] c = "," -> 44   [] c = "-" -> 45   [] c = "." -> 46   [] c = "/" -> 47
       [] c = "0" -> 48   [] c = "1" -> 49   [] c = "2" -> 50   [] c = "3" -> 51
       [] c = "4" -> 52   [] c = "5" -> 53   [] c = "6" -> 54   [] c = "7" -> 55
       [] c = "8" -> 56   [] c = "9" -> 57   [] c = ":" -> 58
       [] c = "A" -> 65   [] c = "B" -> 66   [] c = "D" -> 68   [] c = "E" -> 69
       [] c = "F" -> 70   [] c = "T" -> 84   [] c = "Z" -> 90
       [] c = "C" -> 67   [] c = "G" -> 71
       [] c = "H" -> 72   [] c = "I" -> 73   [] c = "K" -> 75   [] c = "L" -> 76
       [] c = "M" -> 77   [] c = "N" -> 78   [] c = "O" -> 79   [] c = "R" -> 82
       [] c = "S" -> 83   [] c = "U" -> 85   [] c = "V" -> 86   [] c = "_" -> 95
       [] c = "g" -> 103  [] c = "h" -> 104  [] c = "i" -> 105  [] c = "m" -> 109
       [] c = "o" -> 111  [] c = "p" -> 112  [] c = "w" -> 119  [] c = "'" -> 39
       [] c = "(" -> 40   [] c = ")" -> 41   [] c = "|" -> 124  [] c = "^" -> 94
       [] c = "[" -> 91   [] c = "\\" -> 92  [] c = "]" -> 93
       [] c = "a" -> 97   [] c = "b" -> 98   [] c = "c" -> 99   [] c = "d" -> 100
       [] c = "e" -> 101  [] c = "f" -> 102  [] c = "j" -> 106  [] c = "k" -> 107
       [] c = "l" -> 108  [] c = "v" -> 118  [] c = "y" -> 121
       [] c = "n" -> 110  [] c = "q" -> 113  [] c = "r" -> 114  [] c = "s" -> 115
       [] c = "t" -> 116  [] c = "u" -> 117  [] c = "x" -> 120  [] c = "z" -> 122
       [] c = "{" -> 123  [] c = "}" -> 125]

\* The bytes of a text written as a tuple of one-character strings.
S(t) == [i \in 1..Len(t) |-> ASCII[t[i]]]

(***************************************************************************)
(* internal/lexer: Position, Token, TokenType                              *)
(***************************************************************************)
Position(line, column, offset) ==
  [Line |-> line, Column |-> column, Offset |-> offset]

Token(type, value, position) ==
  [Type |-> type, Value |-> value, Position |-> position]

TokenType ==
  {"INVALID", "EOF", "LEFT_BRACE", "RIGHT_BRACE", "LEFT_BRACKET",
   "RIGHT_BRACKET", "COLON", "COMMA", "STRING", "NUMBER", "BOOLEAN", "NULL"}

\* The nil error.
NoErr == [format |-> "", args |-> <<>>]

\* fmt.Errorf(format, args...): the error value, its text left unrendered.
Errorf(format, args) == [format |-> format, args |-> args]

(***************************************************************************)
(* The byte literals of the lexer's and the parser's code.                 *)
(***************************************************************************)
Backspace == 8
Tab == 9
LineFeed == 10
FormFeed == 12
CarriageReturn == 13
Space == 32
Quote == 34
Plus == 43
Comma == 44
Minus == 45
Dot == 46
Slash == 47
Digit0 == 48
Digit9 == 57
Colon == 58
UpperA == 65
UpperE == 69
UpperF == 70
UpperZ == 90
LeftBracket == 91
Backslash == 92
RightBracket == 93
LowerA == 97
LowerB == 98
LowerE == 101
LowerF == 102
LowerL == 108
LowerN == 110
LowerR == 114
LowerS == 115
LowerT == 116
LowerU == 117
LowerX == 120
LowerZ == 122
LeftBrace == 123
RightBrace == 125

\* The texts of the keywords.
TrueText == <<LowerT, LowerR, LowerU, LowerE>>
FalseText == <<LowerF, LowerA, LowerL, LowerS, LowerE>>
NullText == <<LowerN, LowerU, LowerL, LowerL>>

(***************************************************************************)
(* internal/lexer: the lexer                                               *)
(***************************************************************************)
isHexDigit(ch) ==
  \/ ch >= Digit0 /\ ch <= Digit9
  \/ ch >= UpperA /\ ch <= UpperF
  \/ ch >= LowerA /\ ch <= LowerF

isAlpha(ch) ==
  \/ ch >= LowerA /\ ch <= LowerZ
  \/ ch >= UpperA /\ ch <= UpperZ

isDigit(ch) == ch >= Digit0 /\ ch <= Digit9

\* unicode.IsPrint(rune(ch)) for a rune below 256 (Latin-1).
IsPrint(ch) ==
  \/ ch >= 32 /\ ch <= 126
  \/ ch >= 161 /\ ch <= 255 /\ ch # 173

\* readChar with the fault of counting the column on across a line feed.
readCharNoReset(l) ==
  LET ch == IF l.current >= Len(l.input) THEN 0 ELSE l.input[l.current + 1]
      pos == IF l.current > 0 /\ l.input[l.current] = LineFeed
               THEN [l.position EXCEPT !.Line = @ + 1, !.Column = @ + 1]
               ELSE IF l.current > 0
                      THEN [l.position EXCEPT !.Column = @ + 1]
                      ELSE l.position
  IN  [l EXCEPT !.ch = ch,
                !.position = [pos EXCEPT !.Offset = l.current],
                !.current = l.current + 1]

readChar(l) ==
  LET ch == IF l.current >= Len(l.input) THEN 0 ELSE l.input[l.current + 1]
      pos == IF l.current > 0 /\ l.input[l.current] = LineFeed
               THEN [l.position EXCEPT !.Line = @ + 1, !.Column = 1]
               ELSE IF l.current > 0
                      THEN [l.position EXCEPT !.Column = @ + 1]
                      ELSE l.position
  IN  [l EXCEPT !.ch = ch,
                !.position = [pos EXCEPT !.Offset = l.current],
                !.current = l.current + 1]

LexerNew(input) ==
  readChar([input |-> input, position |-> Position(1, 1, 0),
            current |-> 0, ch |-> 0])

RECURSIVE skipWhitespace(_)
skipWhitespace(l) ==
  IF l.ch \in {Space, Tab, LineFeed, CarriageReturn}
    THEN skipWhitespace(readChar(l))
    ELSE l

\* HasMore with the fault of asking whether a byte follows the current one.
HasMoreAhead(l) == l.current < Len(l.input)

HasMore(l) == l.ch # 0

LexerPosition(l) == l.position

\* What a lexer method returns, with the lexer as the call leaves it.
LexRet(l, tok, err) == [l |-> l, tok |-> tok, err |-> err]

\* utf8.EncodeRune for a code point below 0x10000: a surrogate half
\* (0xD800..0xDFFF) is encoded as U+FFFD.
EncodeRune(codePoint) ==
  LET r == IF codePoint >= 55296 /\ codePoint <= 57343 THEN 65533 ELSE codePoint
  IN  IF r <= 127 THEN <<r>>
      ELSE IF r <= 2047 THEN <<192 + (r \div 64), 128 + (r % 64)>>
      ELSE <<224 + (r \div 4096), 128 + ((r \div 64) % 64), 128 + (r % 64)>>

hexValue(digit) ==
  IF digit >= Digit0 /\ digit <= Digit9 THEN digit - Digit0
  ELSE IF digit >= UpperA /\ digit <= UpperF THEN digit - UpperA + 10
  ELSE IF digit >= LowerA /\ digit <= LowerF THEN digit - LowerA + 10
  ELSE 0

RECURSIVE codePointOf(_, _)
codePointOf(hexDigits, acc) ==
  IF hexDigits = <<>> THEN acc
  ELSE codePointOf(Tail(hexDigits), acc * 16 + hexValue(Head(hexDigits)))

\* The loop of readUnicodeEscape; hexDigits holds the digits read so far.
RECURSIVE readHexDigits(_, _)
readHexDigits(l, hexDigits) ==
  LET i == Len(hexDigits)
  IN  IF i >= 4
        THEN [l |-> l, bytes |-> EncodeRune(codePointOf(hexDigits, 0)), err |-> NoErr]
      ELSE IF l.ch = 0
        THEN [l |-> l, bytes |-> <<>>,
              err |-> Errorf("incomplete Unicode escape sequence at %s", <<l.position>>)]
      ELSE IF ~isHexDigit(l.ch)
        THEN [l |-> l, bytes |-> <<>>,
              err |-> Errorf("invalid Unicode escape sequence '\\u%s' at %s",
                             <<hexDigits, l.position>>)]
      ELSE readHexDigits(IF i < 3 THEN readChar(l) ELSE l, Append(hexDigits, l.ch))

readUnicodeEscape(l) == readHexDigits(readChar(l), <<>>)

\* escapeByte with the fault of writing the letter of \\b itself.
escapeByteLetter(ch) ==
  CASE ch = Quote -> Quote
    [] ch = Backslash -> Backslash
    [] ch = Slash -> Slash
    [] ch = LowerB -> LowerB
    [] ch = LowerF -> FormFeed
    [] ch = LowerN -> LineFeed
    [] ch = LowerR -> CarriageReturn
    [] ch = LowerT -> Tab
    [] OTHER -> 0

\* The byte a one-character escape stands for, 0 when ch is none of them.
escapeByte(ch) ==
  CASE ch = Quote -> Quote
    [] ch = Backslash -> Backslash
    [] ch = Slash -> Slash
    [] ch = LowerB -> Backspace
    [] ch = LowerF -> FormFeed
    [] ch = LowerN -> LineFeed
    [] ch = LowerR -> CarriageReturn
    [] ch = LowerT -> Tab
    [] OTHER -> 0

\* The for loop of readString and what follows it.  readEscape is the body
\* of the loop after a backslash, l1 the lexer past the backslash, and
\* readUnicode what follows readUnicodeEscape's return u.
RECURSIVE readStringLoop(_, _, _), readEscape(_, _, _), readUnicode(_, _, _)
readStringLoop(l, value, position) ==
  IF l.ch # Quote /\ l.ch # 0
    THEN IF l.ch = Backslash
           THEN readEscape(readChar(l), value, position)
           ELSE readStringLoop(readChar(l), Append(value, l.ch), position)
  ELSE IF l.ch # Quote
    THEN LexRet(l, Token("INVALID", value, position),
                Errorf("unterminated string at %s", <<position>>))
  ELSE LexRet(readChar(l), Token("STRING", value, position), NoErr)

readEscape(l1, value, position) ==
  IF l1.ch = 0
    THEN LexRet(l1, Token("INVALID", value, position),
                Errorf("unterminated string at %s", <<position>>))
  ELSE IF escapeByte(l1.ch) # 0
    THEN readStringLoop(readChar(l1), Append(value, escapeByte(l1.ch)), position)
  ELSE IF l1.ch = LowerU
    THEN readUnicode(readUnicodeEscape(l1), value, position)
  ELSE LexRet(l1, Token("INVALID", value, position),
              Errorf("invalid escape sequence '\\%c' at %s", <<l1.ch, l1.position>>))

readUnicode(u, value, position) ==
  IF u.err # NoErr
    THEN LexRet(u.l, Token("INVALID", value, position), u.err)
    ELSE readStringLoop(readChar(u.l), value \o u.bytes, position)

readString(l) == readStringLoop(readChar(l), <<>>, l.position)

\* for isDigit(l.ch) { value = append(value, l.ch); l.readChar() }
RECURSIVE readDigits(_, _)
readDigits(l, value) ==
  IF isDigit(l.ch) THEN readDigits(readChar(l), Append(value, l.ch))
  ELSE [l |-> l, value |-> value]

\* The token a number ends with, d what its last run of digits left.
numberToken(d, position) == LexRet(d.l, Token("NUMBER", d.value, position), NoErr)

\* readNumber after the exponent's optional sign.
readExponentDigits(l, value, position) ==
  IF ~isDigit(l.ch)
    THEN LexRet(l, Token("INVALID", value, position),
                Errorf("invalid number format: missing digits in exponent at %s",
                       <<position>>))
    ELSE numberToken(readDigits(l, value), position)

\* readNumber after the e or E of an exponent.
readExponentSign(l, value, position) ==
  IF l.ch = Plus \/ l.ch = Minus
    THEN readExponentDigits(readChar(l), Append(value, l.ch), position)
    ELSE readExponentDigits(l, value, position)

\* readNumber from the optional exponent part on.
readExponent(l, value, position) ==
  IF l.ch = LowerE \/ l.ch = UpperE
    THEN readExponentSign(readChar(l), Append(value, l.ch), position)
    ELSE LexRet(l, Token("NUMBER", value, position), NoErr)

\* readNumber after a run of digits, d what the run left.
readExponentAfter(d, position) == readExponent(d.l, d.value, position)

\* readNumber after the decimal point.
readFractionDigits(l, value, position) ==
  IF ~isDigit(l.ch)
    THEN LexRet(l, Token("INVALID", value, position),
                Errorf("invalid number format: missing digits after decimal point at %s",
                       <<position>>))
    ELSE readExponentAfter(readDigits(l, value), position)

\* readNumber from the optional fractional part on.
readFraction(l, value, position) ==
  IF l.ch = Dot
    THEN readFractionDigits(readChar(l), Append(value, l.ch), position)
    ELSE readExponent(l, value, position)

\* readNumber after the digits of the integer part, d what they left.
readFractionAfter(d, position) == readFraction(d.l, d.value, position)

\* readAfterZero with the fault of reading on through the digits that follow
\* a leading 0.
readAfterZeroLenient(l, value, position) ==
  IF isDigit(l.ch)
    THEN readFractionAfter(readDigits(l, value), position)
    ELSE readFraction(l, value, position)

\* readNumber after a leading 0.
readAfterZero(l, value, position) ==
  IF isDigit(l.ch)
    THEN LexRet(l, Token("INVALID", value, position),
                Errorf("numbers cannot have leading zeros at %s", <<position>>))
    ELSE readFraction(l, value, position)

\* readNumber from the integer part on.
readIntegerPart(l, value, position) ==
  IF l.ch = Digit0
    THEN readAfterZero(readChar(l), Append(value, l.ch), position)
    ELSE readFractionAfter(readDigits(l, value), position)

\* readNumber after the minus sign.
readAfterMinus(l, value, position) ==
  IF ~isDigit(l.ch)
    THEN LexRet(l, Token("INVALID", value, position),
                Errorf("invalid number format at %s", <<position>>))
    ELSE readIntegerPart(l, value, position)

readNumber(l) ==
  IF l.ch = Minus
    THEN readAfterMinus(readChar(l), <<l.ch>>, l.position)
    ELSE readIntegerPart(l, <<>>, l.position)

\* for isAlpha(l.ch) { value = append(value, l.ch); l.readChar() }
RECURSIVE readAlpha(_, _)
readAlpha(l, value) ==
  IF isAlpha(l.ch) THEN readAlpha(readChar(l), Append(value, l.ch))
  ELSE [l |-> l, value |-> value]

\* keywordToken with the fault of taking letters that begin with null for
\* null.
keywordTokenPrefix(a, position) ==
  IF a.value = TrueText \/ a.value = FalseText
    THEN LexRet(a.l, Token("BOOLEAN", a.value, position), NoErr)
  ELSE IF Len(a.value) >= 4 /\ SubSeq(a.value, 1, 4) = NullText
    THEN LexRet(a.l, Token("NULL", a.value, position), NoErr)
  ELSE LexRet(a.l, Token("INVALID", a.value, position),
              Errorf("invalid keyword '%s' at %s", <<a.value, position>>))

\* The token of the letters a that readKeyword's loop read.
keywordToken(a, position) ==
  IF a.value = TrueText \/ a.value = FalseText
    THEN LexRet(a.l, Token("BOOLEAN", a.value, position), NoErr)
  ELSE IF a.value = NullText
    THEN LexRet(a.l, Token("NULL", a.value, position), NoErr)
  ELSE LexRet(a.l, Token("INVALID", a.value, position),
              Errorf("invalid keyword '%s' at %s", <<a.value, position>>))

readKeyword(l) == keywordToken(readAlpha(l, <<>>), l.position)

\* The type of the one-byte structural token ch begins, "" when it begins none.
structural(ch) ==
  CASE ch = LeftBrace -> "LEFT_BRACE"
    [] ch = RightBrace -> "RIGHT_BRACE"
    [] ch = LeftBracket -> "LEFT_BRACKET"
    [] ch = RightBracket -> "RIGHT_BRACKET"
    [] ch = Colon -> "COLON"
    [] ch = Comma -> "COMMA"
    [] OTHER -> ""

\* The character of one lower-case hexadecimal digit.
hexChar(n) == IF n < 10 THEN Digit0 + n ELSE LowerA + (n - 10)

\* fmt.Sprintf("\\x%02x", ch)
hexEscape(ch) == <<Backslash, LowerX, hexChar(ch \div 16), hexChar(ch % 16)>>

\* NextToken once skipWhitespace has run.
\* scanToken with the end of input consumed as the structural characters
\* are: the cursor and the offset move past it as readChar moves them.
scanTokenConsumeEOF(l) ==
  IF structural(l.ch) # ""
    THEN LexRet(readChar(l), Token(structural(l.ch), <<l.ch>>, l.position), NoErr)
  ELSE IF l.ch = Quote THEN readString(l)
  ELSE IF l.ch = 0
    THEN LexRet([l EXCEPT !.position.Offset = l.current, !.current = l.current + 1],
                Token("EOF", <<>>, l.position), NoErr)
  ELSE IF l.ch = Minus \/ (l.ch >= Digit0 /\ l.ch <= Digit9)
    THEN readNumber(l)
  ELSE IF isAlpha(l.ch) THEN readKeyword(l)
  ELSE IF IsPrint(l.ch)
    THEN LexRet(l, Token("INVALID", <<l.ch>>, l.position),
                Errorf("unexpected character '%c' at %s", <<l.ch, l.position>>))
  ELSE LexRet(l, Token("INVALID", hexEscape(l.ch), l.position),
              Errorf("unexpected character '\\x%02x' at %s", <<l.ch, l.position>>))

scanToken(l) ==
  IF structural(l.ch) # ""
    THEN LexRet(readChar(l), Token(structural(l.ch), <<l.ch>>, l.position), NoErr)
  ELSE IF l.ch = Quote THEN readString(l)
  ELSE IF l.ch = 0 THEN LexRet(l, Token("EOF", <<>>, l.position), NoErr)
  ELSE IF l.ch = Minus \/ (l.ch >= Digit0 /\ l.ch <= Digit9)
    THEN readNumber(l)
  ELSE IF isAlpha(l.ch) THEN readKeyword(l)
  ELSE IF IsPrint(l.ch)
    THEN LexRet(l, Token("INVALID", <<l.ch>>, l.position),
                Errorf("unexpected character '%c' at %s", <<l.ch, l.position>>))
  ELSE LexRet(l, Token("INVALID", hexEscape(l.ch), l.position),
              Errorf("unexpected character '\\x%02x' at %s", <<l.ch, l.position>>))

NextToken(l) == scanToken(skipWhitespace(l))

(***************************************************************************)
(* internal/parser: values and errors                                      *)
(***************************************************************************)
\* Go's nil: the value of JSON null and the value returned with an error.
Nil == [t |-> "nil"]

\* NewJSONObject(): the empty map.
NewJSONObject == [k \in {} |-> Nil]

ObjectValue(obj) == [t |-> "object", v |-> obj]
ArrayValue(arr) == [t |-> "array", v |-> arr]
StringValue(s) == [t |-> "string", v |-> s]
BoolValue(b) == [t |-> "bool", v |-> b]

\* mapPut with the fault of keeping the value a key already has.
mapPutFirstWins(obj, key, value) ==
  [k \in DOMAIN obj \cup {key} |-> IF k \in DOMAIN obj THEN obj[k] ELSE value]

\* obj[key] = value
mapPut(obj, key, value) ==
  [k \in DOMAIN obj \cup {key} |-> IF k = key THEN value ELSE obj[k]]

\* TokenType.String()
TokenTypeString(t) ==
  CASE t = "INVALID" -> S(<<"I", "N", "V", "A", "L", "I", "D">>)
    [] t = "EOF" -> S(<<"E", "O", "F">>)
    [] t = "LEFT_BRACE" -> S(<<"L", "E", "F", "T", "_", "B", "R", "A", "C", "E">>)
    [] t = "RIGHT_BRACE" -> S(<<"R", "I", "G", "H", "T", "_", "B", "R", "A", "C", "E">>)
    [] t = "LEFT_BRACKET" ->
         S(<<"L", "E", "F", "T", "_", "B", "R", "A", "C", "K", "E", "T">>)
    [] t = "RIGHT_BRACKET" ->
         S(<<"R", "I", "G", "H", "T", "_", "B", "R", "A", "C", "K", "E", "T">>)
    [] t = "COLON" -> S(<<"C", "O", "L", "O", "N">>)
    [] t = "COMMA" -> S(<<"C", "O", "M", "M", "A">>)
    [] t = "STRING" -> S(<<"S", "T", "R", "I", "N", "G">>)
    [] t = "NUMBER" -> S(<<"N", "U", "M", "B", "E", "R">>)
    [] t = "BOOLEAN" -> S(<<"B", "O", "O", "L", "E", "A", "N">>)
    [] t = "NULL" -> S(<<"N", "U", "L", "L">>)

\* ErrorType.String(); an ErrorType is written by the name of its constant.
ErrorTypeString(et) ==
  CASE et = "Lexical" -> S(<<"L", "e", "x", "i", "c", "a", "l">>)
    [] et = "Syntax" -> S(<<"S", "y", "n", "t", "a", "x">>)
    [] et = "Semantic" -> S(<<"S", "e", "m", "a", "n", "t", "i", "c">>)
    [] OTHER -> S(<<"U", "n", "k", "n", "o", "w", "n">>)

\* The verb %d of fmt.Sprintf, for n >= 0.
RECURSIVE itoa(_)
itoa(n) ==
  IF n < 10 THEN <<Digit0 + n>> ELSE Append(itoa(n \div 10), Digit0 + (n % 10))

\* Position.String(): "line %d, column %d"
PositionString(p) ==
  S(<<"l", "i", "n", "e", " ">>) \o itoa(p.Line)
    \o S(<<",", " ", "c", "o", "l", "u", "m", "n", " ">>) \o itoa(p.Column)

\* strings.Join(elems, sep)
RECURSIVE Join(_, _)
Join(elems, sep) ==
  IF elems = <<>> THEN <<>>
  ELSE IF Len(elems) = 1 THEN elems[1]
  ELSE elems[1] \o sep \o Join(Tail(elems), sep)

\* strings.Split(s, "\n") from s[i] on, line being the bytes of the line
\* read so far; the whole of it is splitLines(s, 1, <<>>).
RECURSIVE splitLines(_, _, _)
splitLines(s, i, line) ==
  IF i > Len(s) THEN <<line>>
  ELSE IF s[i] = LineFeed THEN <<line>> \o splitLines(s, i + 1, <<>>)
  ELSE splitLines(s, i + 1, Append(line, s[i]))

\* strings.Repeat(" ", count)
Repeat(count) == [i \in 1..count |-> Space]

\* The snippet generateJSONSnippet writes for a line of the source: the
\* line behind its number, and under it the pointer, which has its caret
\* only when the column is within the line.
snippetOfLine(lineNumber, column, line) ==
  itoa(lineNumber) \o S(<<"|", " ">>) \o line \o <<LineFeed>>
    \o Repeat(Len(itoa(lineNumber) \o S(<<"|", " ">>)))
    \o (IF column > 0 /\ column <= Len(line)
          THEN Repeat(column - 1) \o S(<<"^">>)
          ELSE <<>>)

\* generateJSONSnippet, lines being strings.Split(e.SourceInput, "\n").
snippetOfLines(e, lines) ==
  IF e.Position.Line < 1 \/ e.Position.Line > Len(lines) THEN <<>>
  ELSE snippetOfLine(e.Position.Line, e.Position.Column, lines[e.Position.Line])

generateJSONSnippet(e) ==
  IF e.SourceInput = <<>> THEN <<>>
  ELSE snippetOfLines(e, splitLines(e.SourceInput, 1, <<>>))

\* NewParseError(message, token): always of type Syntax.
NewParseError(message, token) ==
  [Type |-> "Syntax", Message |-> message, Position |-> token.Position,
   Token |-> token, Expected |-> <<>>, Found |-> TokenTypeString(token.Type),
   JSONSnippet |-> <<>>, Suggestion |-> <<>>, SourceInput |-> <<>>]

\* pe.JSONSnippet = pe.generateJSONSnippet()
withSnippet(pe) == [pe EXCEPT !.JSONSnippet = generateJSONSnippet(pe)]

\* NewDetailedParseError: Found is "'%s' (%s)" of the token's value and type.
NewDetailedParseError(errorType, message, token, expected, suggestion, sourceInput) ==
  withSnippet(
    [Type |-> errorType, Message |-> message, Position |-> token.Position,
     Token |-> token, Expected |-> expected,
     Found |-> S(<<"'">>) \o token.Value \o S(<<"'", " ", "(">>)
                 \o TokenTypeString(token.Type) \o S(<<")">>),
     JSONSnippet |-> <<>>, Suggestion |-> suggestion, SourceInput |-> sourceInput])

NewLexicalError(message, token, suggestion, sourceInput) ==
  NewDetailedParseError("Lexical", message, token, <<>>, suggestion, sourceInput)

NewSyntaxError(message, token, expected, suggestion, sourceInput) ==
  NewDetailedParseError("Syntax", message, token, expected, suggestion, sourceInput)

NewSemanticError(message, token, suggestion, sourceInput) ==
  NewDetailedParseError("Semantic", message, token, <<>>, suggestion, sourceInput)

\* The part of Error() for the expected list: none when the list is empty
\* or Found is.
expectedPart(e) ==
  IF Len(e.Expected) > 0 /\ e.Found # <<>>
    THEN <<S(<<"E", "x", "p", "e", "c", "t", "e", "d", " ">>)
             \o Join(e.Expected, S(<<" ", "o", "r", " ">>))
             \o S(<<",", " ", "b", "u", "t", " ", "f", "o", "u", "n", "d", " ">>)
             \o e.Found>>
    ELSE <<>>

\* labelledPart with the fault of writing the line of an empty text too.
labelledPartAlways(label, text) == <<label \o text>>

\* if text != "" { parts = append(parts, fmt.Sprintf(label + "%s", text)) }
labelledPart(label, text) == IF text # <<>> THEN <<label \o text>> ELSE <<>>

\* ParseError.Error()
Error(e) ==
  Join(<<ErrorTypeString(e.Type)
           \o S(<<" ", "e", "r", "r", "o", "r", " ", "a", "t", " ">>)
           \o PositionString(e.Position) \o S(<<":", " ">>) \o e.Message>>
         \o expectedPart(e)
         \o labelledPart(S(<<"N", "e", "a", "r", ":", " ">>), e.JSONSnippet)
         \o labelledPart(S(<<"S", "u", "g", "g", "e", "s", "t", "i", "o", "n", ":", " ">>),
                         e.Suggestion),
       <<LineFeed>>)

\* What a parser method returns, with the parser as the call leaves it.
Ret(p, value, err) == [p |-> p, value |-> value, err |-> err]

(***************************************************************************)
(* strconv.ParseInt(s, 10, 64) and strconv.ParseFloat(s, 64).  A number is *)
(* kept as its decimal digits (values 0..9), since an int64 does not fit   *)
(* the checker's integers: an integer is a sign and a magnitude without    *)
(* leading zeros; a float is a sign, the significant digits mant (no       *)
(* leading or trailing zero, empty for zero) and the decimal exponent exp  *)
(* of the first of them, so its value is mant[1].mant[2]... * 10^exp.      *)
(* Rounding to the nearest binary64 is not modelled.                       *)
(***************************************************************************)
Int64Value(neg, mag) == [t |-> "int64", neg |-> neg, mag |-> mag]
Float64Value(neg, mant, exp) == [t |-> "float64", neg |-> neg, mant |-> mant, exp |-> exp]

digitsOf(text) == [i \in 1..Len(text) |-> text[i] - Digit0]

RECURSIVE stripLeadingZeros(_)
stripLeadingZeros(d) ==
  IF d # <<>> /\ Head(d) = 0 THEN stripLeadingZeros(Tail(d)) ELSE d

RECURSIVE stripTrailingZeros(_)
stripTrailingZeros(d) ==
  IF d # <<>> /\ d[Len(d)] = 0 THEN stripTrailingZeros(SubSeq(d, 1, Len(d) - 1)) ELSE d

\* a < b for digit sequences of one length.
RECURSIVE lexLess(_, _)
lexLess(a, b) ==
  IF a = <<>> THEN FALSE
  ELSE IF Head(a) # Head(b) THEN Head(a) < Head(b)
  ELSE lexLess(Tail(a), Tail(b))

\* a < b for magnitudes without leading zeros.
magLess(a, b) == Len(a) < Len(b) \/ (Len(a) = Len(b) /\ lexLess(a, b))

\* 1<<63 - 1, in digits.
MaxInt64 == <<9, 2, 2, 3, 3, 7, 2, 0, 3, 6, 8, 5, 4, 7, 7, 5, 8, 0, 7>>
\* 1<<63, in digits.
MinInt64Mag == <<9, 2, 2, 3, 3, 7, 2, 0, 3, 6, 8, 5, 4, 7, 7, 5, 8, 0, 8>>

isSign(ch) == ch = Plus \/ ch = Minus

\* The int64 of an optional sign and the text body after it.
intOf(neg, body) ==
  LET stripped == stripLeadingZeros(digitsOf(body))
      mag == IF stripped = <<>> THEN <<0>> ELSE stripped
  IN  IF body = <<>> \/ \E i \in 1..Len(body) : ~isDigit(body[i])
        THEN [ok |-> FALSE, err |-> "ErrSyntax", v |-> Nil]
      ELSE IF magLess(IF neg THEN MinInt64Mag ELSE MaxInt64, mag)
        THEN [ok |-> FALSE, err |-> "ErrRange", v |-> Nil]
      ELSE [ok |-> TRUE, err |-> "", v |-> Int64Value(neg /\ mag # <<0>>, mag)]

ParseInt(s) ==
  intOf(s # <<>> /\ s[1] = Minus,
        IF s # <<>> /\ isSign(s[1]) THEN Tail(s) ELSE s)

\* The scan of a decimal floating-point literal, s what is left of it: st.all
\* the digits of the integer and fractional parts, st.nInt how many of them
\* are of the integer part, st.e the exponent's digits as a number (like
\* readFloat it stops growing at 10000), st.nExp how many they are.
RECURSIVE scanFloat(_, _)
scanFloat(s, st) ==
  IF s = <<>> THEN st
  ELSE
    CASE st.mode = "int" /\ isDigit(Head(s)) ->
           scanFloat(Tail(s), [st EXCEPT !.all = Append(@, Head(s) - Digit0),
                                         !.nInt = @ + 1])
      [] st.mode = "int" /\ Head(s) = Dot ->
           scanFloat(Tail(s), [st EXCEPT !.mode = "frac"])
      [] st.mode = "frac" /\ isDigit(Head(s)) ->
           scanFloat(Tail(s), [st EXCEPT !.all = Append(@, Head(s) - Digit0)])
      [] st.mode \in {"int", "frac"} /\ Head(s) \in {LowerE, UpperE} ->
           scanFloat(Tail(s), [st EXCEPT !.mode = "sign"])
      [] st.mode = "sign" /\ isSign(Head(s)) ->
           scanFloat(Tail(s), [st EXCEPT !.mode = "exp",
                                         !.expNeg = Head(s) = Minus])
      [] st.mode \in {"sign", "exp"} /\ isDigit(Head(s)) ->
           scanFloat(Tail(s),
                     [st EXCEPT !.mode = "exp", !.nExp = @ + 1,
                                !.e = IF @ < 10000 THEN @ * 10 + (Head(s) - Digit0)
                                                   ELSE @])
      [] OTHER -> [st EXCEPT !.mode = "bad"]

\* mant compared with the leading digits of a bound: -1, 0 or 1 (mant taken
\* as padded with zeros).
RECURSIVE cmpDigits(_, _)
cmpDigits(mant, bound) ==
  IF bound = <<>> THEN (IF mant = <<>> THEN 0 ELSE 1)
  ELSE LET m == IF mant = <<>> THEN 0 ELSE Head(mant)
       IN  IF m < Head(bound) THEN -1
           ELSE IF m > Head(bound) THEN 1
           ELSE cmpDigits(IF mant = <<>> THEN <<>> ELSE Tail(mant), Tail(bound))

\* The first digits of (MaxFloat64 + 2^1024) / 2 = 1.797693134862315807937...e308:
\* from there on ParseFloat reports ErrRange.
OverflowDigits == <<1, 7, 9, 7, 6, 9, 3, 1, 3, 4, 8, 6, 2, 3, 1, 5, 8, 0, 7, 9, 3, 7>>
\* The first digits of half the smallest denormal, 2.4703282292062327208...e-324:
\* up to there ParseFloat returns zero.
UnderflowDigits == <<2, 4, 7, 0, 3, 2, 8, 2, 2, 9, 2, 0, 6, 2, 3, 2, 7, 2, 0, 8>>

\* The float64 of a scanned literal.
floatOf(neg, st) ==
  LET digits == stripLeadingZeros(st.all)
      mant == stripTrailingZeros(digits)
      exp == (IF st.expNeg THEN 0 - st.e ELSE st.e) + st.nInt - 1
               - (Len(st.all) - Len(digits))
  IN  IF st.mode = "bad" \/ st.all = <<>> \/ st.mode = "sign"
           \/ (st.mode = "exp" /\ st.nExp = 0)
        THEN [ok |-> FALSE, err |-> "ErrSyntax", v |-> Nil]
      ELSE IF mant = <<>>
        THEN [ok |-> TRUE, err |-> "", v |-> Float64Value(neg, <<>>, 0)]
      ELSE IF exp > 308 \/ (exp = 308 /\ cmpDigits(mant, OverflowDigits) >= 0)
        THEN [ok |-> FALSE, err |-> "ErrRange", v |-> Nil]
      ELSE IF exp < -324 \/ (exp = -324 /\ cmpDigits(mant, UnderflowDigits) <= 0)
        THEN [ok |-> TRUE, err |-> "", v |-> Float64Value(neg, <<>>, 0)]
      ELSE [ok |-> TRUE, err |-> "", v |-> Float64Value(neg, mant, exp)]

ParseFloat(s) ==
  floatOf(s # <<>> /\ s[1] = Minus,
          scanFloat(IF s # <<>> /\ isSign(s[1]) THEN Tail(s) ELSE s,
                    [mode |-> "int", all |-> <<>>, nInt |-> 0, expNeg |-> FALSE,
                     e |-> 0, nExp |-> 0]))

(***************************************************************************)
(* internal/parser/parser.go                                               *)
(***************************************************************************)
\* The zero Token of a parser whose fields are not set yet.
ZeroToken == Token("INVALID", <<>>, Position(0, 0, 0))

\* advance with the fault of keeping the position of the lexer's own token
\* when NextToken has failed.
advanceTokenPosition(p, r) ==
  [lexer |-> r.l,
   currentToken |-> p.peekToken,
   peekToken |-> IF r.err # NoErr
                   THEN Token("INVALID", r.err, r.tok.Position)
                   ELSE r.tok]

\* nextToken with the fault of keeping the token the lexer returned with
\* its error.
advanceKeepToken(p, r) ==
  [lexer |-> r.l,
   currentToken |-> p.peekToken,
   peekToken |-> r.tok]

\* The parser once the lexer's NextToken has returned r.
advance(p, r) ==
  [lexer |-> r.l,
   currentToken |-> p.peekToken,
   peekToken |-> IF r.err # NoErr
                   THEN Token("INVALID", r.err, LexerPosition(r.l))
                   ELSE r.tok]

nextToken(p) == advance(p, NextToken(p.lexer))

\* New with the fault of reading one token more than it needs.
ParserNewEager(l) ==
  nextToken(nextToken(nextToken([lexer |-> l, currentToken |-> ZeroToken,
                                 peekToken |-> ZeroToken])))

\* New: two calls of nextToken fill currentToken and peekToken.
ParserNew(l) ==
  nextToken(nextToken([lexer |-> l, currentToken |-> ZeroToken,
                       peekToken |-> ZeroToken]))

\* convertNumber with the fault of trying the float conversion first.
convertNumberFloatFirst(p, i, f) ==
  IF f.ok THEN Ret(p, f.v, NoErr)
  ELSE IF i.ok THEN Ret(p, i.v, NoErr)
  ELSE Ret(p, Nil, NewParseError("invalid number format", p.currentToken))

\* parseNumber with the fault of not trying the float conversion.
convertNumberIntOnly(p, i, f) ==
  IF i.ok THEN Ret(p, i.v, NoErr)
  ELSE Ret(p, Nil, NewParseError("invalid number format", p.currentToken))

\* parseNumber after its call of nextToken: i and f are what ParseInt and
\* ParseFloat return for the token's text.
convertNumber(p, i, f) ==
  IF i.ok THEN Ret(p, i.v, NoErr)
  ELSE IF f.ok THEN Ret(p, f.v, NoErr)
  ELSE Ret(p, Nil, NewParseError("invalid number format", p.currentToken))

parseNumber(p) ==
  convertNumber(nextToken(p), ParseInt(p.currentToken.Value),
                ParseFloat(p.currentToken.Value))

\* parseBoolean after its call of nextToken.
convertBoolean(p, value) ==
  IF value = TrueText THEN Ret(p, BoolValue(TRUE), NoErr)
  ELSE IF value = FalseText THEN Ret(p, BoolValue(FALSE), NoErr)
  ELSE Ret(p, Nil, NewParseError("invalid boolean value", p.currentToken))

parseBoolean(p) == convertBoolean(nextToken(p), p.currentToken.Value)

\* parseNull after its call of nextToken.
convertNull(p, value) ==
  IF value = NullText THEN Ret(p, Nil, NoErr)
  ELSE Ret(p, Nil, NewParseError("invalid null value", p.currentToken))

parseNull(p) == convertNull(nextToken(p), p.currentToken.Value)

RECURSIVE parseValue(_), parseObject(_), parseObjectLoop(_, _),
          parseObjectColon(_, _, _), parseObjectMember(_, _, _),
          parseObjectNext(_, _), parseObjectBody(_), parseArray(_),
          parseArrayLoop(_, _), parseArrayElement(_, _), parseArrayNext(_, _),
          parseArrayBody(_)

\* The for loop of parseObject; obj holds the pairs stored so far.
parseObjectLoop(p, obj) ==
  IF p.currentToken.Type # "STRING"
    THEN Ret(p, Nil, NewParseError("expected string key", p.currentToken))
    ELSE parseObjectColon(nextToken(p), obj, p.currentToken.Value)

\* The loop's body after the key and its call of nextToken.
parseObjectColon(p, obj, key) ==
  IF p.currentToken.Type # "COLON"
    THEN Ret(p, Nil, NewParseError("expected ':'", p.currentToken))
    ELSE parseObjectMember(parseValue(nextToken(p)), obj, key)

\* parseObjectMember with the fault of returning the pairs stored so far
\* together with the error of a member's value.
parseObjectMemberPartial(r, obj, key) ==
  IF r.err # NoErr THEN Ret(r.p, ObjectValue(obj), r.err)
  ELSE IF r.p.currentToken.Type = "RIGHT_BRACE"
    THEN Ret(nextToken(r.p), ObjectValue(mapPut(obj, key, r.value)), NoErr)
  ELSE IF r.p.currentToken.Type = "COMMA"
    THEN parseObjectNext(nextToken(r.p), mapPut(obj, key, r.value))
  ELSE Ret(r.p, Nil, NewParseError("expected ',' or '}'", r.p.currentToken))

\* The loop's body after parseValue returned r for the value of key.
parseObjectMember(r, obj, key) ==
  IF r.err # NoErr THEN Ret(r.p, Nil, r.err)
  ELSE IF r.p.currentToken.Type = "RIGHT_BRACE"
    THEN Ret(nextToken(r.p), ObjectValue(mapPut(obj, key, r.value)), NoErr)
  ELSE IF r.p.currentToken.Type = "COMMA"
    THEN parseObjectNext(nextToken(r.p), mapPut(obj, key, r.value))
  ELSE Ret(r.p, Nil, NewParseError("expected ',' or '}'", r.p.currentToken))

\* The loop's body after a comma and its call of nextToken.
parseObjectNext(p, obj) ==
  IF p.currentToken.Type = "RIGHT_BRACE"
    THEN Ret(p, Nil, NewParseError("trailing comma not allowed", p.currentToken))
    ELSE parseObjectLoop(p, obj)

\* parseObject after the left brace and its call of nextToken.
parseObjectBody(p) ==
  IF p.currentToken.Type = "EOF"
    THEN Ret(p, Nil, NewParseError("expected '}'", p.currentToken))
  ELSE IF p.currentToken.Type = "RIGHT_BRACE"
    THEN Ret(nextToken(p), ObjectValue(NewJSONObject), NoErr)
  ELSE parseObjectLoop(p, NewJSONObject)

parseObject(p) ==
  IF p.currentToken.Type # "LEFT_BRACE"
    THEN Ret(p, Nil, NewParseError("expected '{'", p.currentToken))
    ELSE parseObjectBody(nextToken(p))

\* The for loop of parseArray; arr holds the elements appended so far.
parseArrayLoop(p, arr) == parseArrayElement(parseValue(p), arr)

\* parseArrayElement with the fault of taking either closing bracket as the
\* end of the array.
parseArrayElementAnyCloser(r, arr) ==
  IF r.err # NoErr THEN Ret(r.p, Nil, r.err)
  ELSE IF r.p.currentToken.Type \in {"RIGHT_BRACKET", "RIGHT_BRACE"}
    THEN Ret(nextToken(r.p), ArrayValue(Append(arr, r.value)), NoErr)
  ELSE IF r.p.currentToken.Type = "COMMA"
    THEN parseArrayNext(nextToken(r.p), Append(arr, r.value))
  ELSE Ret(r.p, Nil, NewParseError("expected ',' or ']'", r.p.currentToken))

\* The loop's body after parseValue returned r for the next element.
parseArrayElement(r, arr) ==
  IF r.err # NoErr THEN Ret(r.p, Nil, r.err)
  ELSE IF r.p.currentToken.Type = "RIGHT_BRACKET"
    THEN Ret(nextToken(r.p), ArrayValue(Append(arr, r.value)), NoErr)
  ELSE IF r.p.currentToken.Type = "COMMA"
    THEN parseArrayNext(nextToken(r.p), Append(arr, r.value))
  ELSE Ret(r.p, Nil, NewParseError("expected ',' or ']'", r.p.currentToken))

\* parseArrayNext with the fault of ending the array at a closing bracket
\* that follows a comma.
parseArrayNextLenient(p, arr) ==
  IF p.currentToken.Type = "RIGHT_BRACKET"
    THEN Ret(nextToken(p), ArrayValue(arr), NoErr)
    ELSE parseArrayLoop(p, arr)

\* The loop's body after a comma and its call of nextToken.
parseArrayNext(p, arr) ==
  IF p.currentToken.Type = "RIGHT_BRACKET"
    THEN Ret(p, Nil, NewParseError("trailing comma not allowed", p.currentToken))
    ELSE parseArrayLoop(p, arr)

\* parseArray after the left bracket and its call of nextToken.
parseArrayBody(p) ==
  IF p.currentToken.Type = "EOF"
    THEN Ret(p, Nil, NewParseError("expected ']'", p.currentToken))
  ELSE IF p.currentToken.Type = "RIGHT_BRACKET"
    THEN Ret(nextToken(p), ArrayValue(<<>>), NoErr)
  ELSE parseArrayLoop(p, <<>>)

parseArray(p) ==
  IF p.currentToken.Type # "LEFT_BRACKET"
    THEN Ret(p, Nil, NewParseError("expected '['", p.currentToken))
    ELSE parseArrayBody(nextToken(p))

\* parseValue with the fault of taking the end of the input for one more
\* token that begins no value.
parseValueAnyToken(p) ==
  CASE p.currentToken.Type = "LEFT_BRACE" -> parseObject(p)
    [] p.currentToken.Type = "LEFT_BRACKET" -> parseArray(p)
    [] p.currentToken.Type = "STRING" ->
         Ret(nextToken(p), StringValue(p.currentToken.Value), NoErr)
    [] p.currentToken.Type = "NUMBER" -> parseNumber(p)
    [] p.currentToken.Type = "BOOLEAN" -> parseBoolean(p)
    [] p.currentToken.Type = "NULL" -> parseNull(p)
    [] OTHER -> Ret(p, Nil, NewParseError("expected JSON value", p.currentToken))

parseValue(p) ==
  CASE p.currentToken.Type = "LEFT_BRACE" -> parseObject(p)
    [] p.currentToken.Type = "LEFT_BRACKET" -> parseArray(p)
    [] p.currentToken.Type = "STRING" ->
         Ret(nextToken(p), StringValue(p.currentToken.Value), NoErr)
    [] p.currentToken.Type = "NUMBER" -> parseNumber(p)
    [] p.currentToken.Type = "BOOLEAN" -> parseBoolean(p)
    [] p.currentToken.Type = "NULL" -> parseNull(p)
    [] p.currentToken.Type = "EOF" ->
         Ret(p, Nil, NewParseError("unexpected end of input", p.currentToken))
    [] p.currentToken.Type \in {"INVALID", "RIGHT_BRACE", "RIGHT_BRACKET", "COLON", "COMMA"} ->
         Ret(p, Nil, NewParseError("expected JSON value", p.currentToken))
    [] OTHER -> Ret(p, Nil, NewParseError("expected JSON value", p.currentToken))

ParseValue(p) == parseValue(p)

\* parseEnd with the fault of not looking at what follows the value.
parseEndUnchecked(r) ==
  IF r.err # NoErr THEN Ret(r.p, Nil, r.err) ELSE Ret(r.p, r.value, NoErr)

\* Parse after ParseValue returned r.
parseEnd(r) ==
  IF r.err # NoErr THEN Ret(r.p, Nil, r.err)
  ELSE IF r.p.currentToken.Type # "EOF"
    THEN Ret(r.p, Nil, NewParseError("expected EOF after JSON value", r.p.currentToken))
  ELSE Ret(r.p, r.value, NoErr)

\* Parse with the fault of starting over: the value is parsed by a parser
\* built anew on the input of p's lexer.
ParseFromStart(p) == parseEnd(ParseValue(ParserNew(LexerNew(p.lexer.input))))

Parse(p) == parseEnd(ParseValue(p))

(***************************************************************************)
(* Parse, one piece of code at a time.  The parser's calls of parseObject  *)
(* and parseArray that have not returned are the frames, innermost last:   *)
(* fn is the function, acc the object or the array built so far and key    *)
(* the key whose value is being parsed.  pc is where the code stands: at   *)
(* the entry of parseValue, at the head of the loop of parseObject, behind *)
(* a parseValue that returned val, or behind the return of Parse.          *)
(***************************************************************************)
Frame(fn, acc, key) == [fn |-> fn, acc |-> acc, key |-> key]

Conf(p, pc, frames, val, err) ==
  [p |-> p, pc |-> pc, frames |-> frames, val |-> val, err |-> err]

\* return nil, err, in every caller up to Parse.
Fail(p, err) == Conf(p, "done", <<>>, Nil, err)

Top(frames) == frames[Len(frames)]

Pop(frames) == SubSeq(frames, 1, Len(frames) - 1)

\* parseObject after the left brace and its call of nextToken.
enterObject(p, frames) ==
  IF p.currentToken.Type = "EOF"
    THEN Fail(p, NewParseError("expected '}'", p.currentToken))
  ELSE IF p.currentToken.Type = "RIGHT_BRACE"
    THEN Conf(nextToken(p), "returned", frames, ObjectValue(NewJSONObject), NoErr)
  ELSE Conf(p, "objectLoop", Append(frames, Frame("parseObject", NewJSONObject, <<>>)),
            Nil, NoErr)

\* parseArray after the left bracket and its call of nextToken.
enterArray(p, frames) ==
  IF p.currentToken.Type = "EOF"
    THEN Fail(p, NewParseError("expected ']'", p.currentToken))
  ELSE IF p.currentToken.Type = "RIGHT_BRACKET"
    THEN Conf(nextToken(p), "returned", frames, ArrayValue(<<>>), NoErr)
  ELSE Conf(p, "parseValue", Append(frames, Frame("parseArray", <<>>, <<>>)), Nil, NoErr)

\* parseValue returned r without a call of parseObject or parseArray.
leafValue(r, frames) ==
  IF r.err # NoErr THEN Fail(r.p, r.err)
  ELSE Conf(r.p, "returned", frames, r.value, NoErr)

\* parseValue, up to the loop of the container it opens or to its return.
valueStep(p, frames) ==
  IF p.currentToken.Type = "LEFT_BRACE" THEN enterObject(nextToken(p), frames)
  ELSE IF p.currentToken.Type = "LEFT_BRACKET" THEN enterArray(nextToken(p), frames)
  ELSE leafValue(parseValue(p), frames)

\* The loop of parseObject after the key and its call of nextToken, up to
\* the call of parseValue.
objectColonStep(p, frames, key) ==
  IF p.currentToken.Type # "COLON"
    THEN Fail(p, NewParseError("expected ':'", p.currentToken))
    ELSE Conf(nextToken(p), "parseValue",
              Append(Pop(frames), Frame("parseObject", Top(frames).acc, key)), Nil, NoErr)

\* The loop of parseObject from its head to the call of parseValue.
objectKeyStep(p, frames) ==
  IF p.currentToken.Type # "STRING"
    THEN Fail(p, NewParseError("expected string key", p.currentToken))
    ELSE objectColonStep(nextToken(p), frames, p.currentToken.Value)

\* The loop of parseObject after a comma and its call of nextToken.
objectNextStep(p, frames) ==
  IF p.currentToken.Type = "RIGHT_BRACE"
    THEN Fail(p, NewParseError("trailing comma not allowed", p.currentToken))
    ELSE Conf(p, "objectLoop", frames, Nil, NoErr)

\* The loop of parseObject behind obj[key] = value, obj being the object
\* with the new pair.
objectSeparatorStep(p, frames, obj) ==
  IF p.currentToken.Type = "RIGHT_BRACE"
    THEN Conf(nextToken(p), "returned", Pop(frames), ObjectValue(obj), NoErr)
  ELSE IF p.currentToken.Type = "COMMA"
    THEN objectNextStep(nextToken(p),
                        Append(Pop(frames), Frame("parseObject", obj, <<>>)))
  ELSE Fail(p, NewParseError("expected ',' or '}'", p.currentToken))

\* The loop of parseObject behind the parseValue that returned val.
objectMemberStep(p, frames, val) ==
  objectSeparatorStep(p, frames, mapPut(Top(frames).acc, Top(frames).key, val))

\* The loop of parseArray after a comma and its call of nextToken.
arrayNextStep(p, frames) ==
  IF p.currentToken.Type = "RIGHT_BRACKET"
    THEN Fail(p, NewParseError("trailing comma not allowed", p.currentToken))
    ELSE Conf(p, "parseValue", frames, Nil, NoErr)

\* arraySeparatorStep with the fault of going round the loop again at a
\* token that is neither a comma nor the closing bracket.
arraySeparatorStepRetry(p, frames, arr) ==
  IF p.currentToken.Type = "RIGHT_BRACKET"
    THEN Conf(nextToken(p), "returned", Pop(frames), ArrayValue(arr), NoErr)
  ELSE IF p.currentToken.Type = "COMMA"
    THEN arrayNextStep(nextToken(p), Append(Pop(frames), Frame("parseArray", arr, <<>>)))
  ELSE Conf(p, "returned", frames, Nil, NoErr)

\* The loop of parseArray behind arr = append(arr, value), arr being the
\* array with the new element.
arraySeparatorStep(p, frames, arr) ==
  IF p.currentToken.Type = "RIGHT_BRACKET"
    THEN Conf(nextToken(p), "returned", Pop(frames), ArrayValue(arr), NoErr)
  ELSE IF p.currentToken.Type = "COMMA"
    THEN arrayNextStep(nextToken(p), Append(Pop(frames), Frame("parseArray", arr, <<>>)))
  ELSE Fail(p, NewParseError("expected ',' or ']'", p.currentToken))

\* The loop of parseArray behind the parseValue that returned val.
arrayElementStep(p, frames, val) ==
  arraySeparatorStep(p, frames, Append(Top(frames).acc, val))

\* Parse behind the ParseValue that returned val.
parseEndStep(p, val) ==
  IF p.currentToken.Type # "EOF"
    THEN Fail(p, NewParseError("expected EOF after JSON value", p.currentToken))
    ELSE Conf(p, "done", <<>>, val, NoErr)

(***************************************************************************)
(* internal/cli: the file reader and the handler.  The file system is a    *)
(* function from file names to what is there.                              *)
(***************************************************************************)
\* parser.NewWithInput(l, input): the parser of New, which keeps the source
\* text for the text of its errors.
NewWithInput(l, input) == ParserNew(l)

\* What the tests find on disk: nothing under the empty name and under a
\* name never written, a directory, and files with and without valid JSON.
FileSystem ==
  [name \in {"", "nonexistent.json", "dir", "valid.json", "array.json",
             "malformed.json", "empty.json"} |->
     CASE name = "dir" -> [exists |-> TRUE, dir |-> TRUE, content |-> <<>>]
       [] name = "valid.json" ->
            [exists |-> TRUE, dir |-> FALSE,
             content |-> S(<<"{", "\"", "k", "\"", ":", "1", "}">>)]
       [] name = "array.json" ->
            [exists |-> TRUE, dir |-> FALSE, content |-> S(<<"[", "1", ",", "2", "]">>)]
       [] name = "malformed.json" ->
            [exists |-> TRUE, dir |-> FALSE,
             content |-> S(<<"{", "\"", "k", "\"", " ", "1", "}">>)]
       [] name = "empty.json" -> [exists |-> TRUE, dir |-> FALSE, content |-> <<>>]
       [] OTHER -> [exists |-> FALSE, dir |-> FALSE, content |-> <<>>]]

\* FileReader.FileExists: os.Stat succeeds.
FileExists(filename) == FileSystem[filename].exists

\* FileReader.ReadFile: os.ReadFile fails on a directory and on nothing.
ReadFile(filename) ==
  IF filename = ""
    THEN [content |-> <<>>, err |-> Errorf("filename cannot be empty", <<>>)]
  ELSE IF ~FileSystem[filename].exists \/ FileSystem[filename].dir
    THEN [content |-> <<>>,
          err |-> Errorf("failed to read file '%s': %w", <<filename, "os.ReadFile">>)]
  ELSE [content |-> FileSystem[filename].content, err |-> NoErr]

\* cli.New(): the exit code defaults to success.
HandlerNew == [exitCode |-> 0]

\* What a handler method returns, with the handler as the call leaves it.
HandlerRet(h, err) == [h |-> h, err |-> err]

\* ParseString after Parse returned r, with the fault of leaving the exit
\* code as it is on success.
parsedSticky(h, r) ==
  IF r.err # NoErr
    THEN HandlerRet([h EXCEPT !.exitCode = 1],
                    Errorf("JSON parsing failed: %w", <<r.err>>))
    ELSE HandlerRet(h, NoErr)

\* ParseString after Parse returned r.
parsed(h, r) ==
  IF r.err # NoErr
    THEN HandlerRet([h EXCEPT !.exitCode = 1],
                    Errorf("JSON parsing failed: %w", <<r.err>>))
    ELSE HandlerRet([h EXCEPT !.exitCode = 0], NoErr)

HandlerParseString(h, input) == parsed(h, Parse(NewWithInput(LexerNew(input), input)))

\* ParseFile after ReadFile returned f.
fileRead(h, f) ==
  IF f.err # NoErr
    THEN HandlerRet([h EXCEPT !.exitCode = 1], Errorf("error reading file: %w", <<f.err>>))
    ELSE HandlerParseString(h, f.content)

HandlerParseFile(h, filename) ==
  IF ~FileExists(filename)
    THEN HandlerRet([h EXCEPT !.exitCode = 1],
                    Errorf("file '%s' does not exist or is not readable", <<filename>>))
    ELSE fileRead(h, ReadFile(filename))

ExitCode(h) == h.exitCode

(***************************************************************************)
(* The inputs the model is run on.                                         *)
(***************************************************************************)
LB == S(<<"{">>)
RB == S(<<"}">>)
LK == S(<<"[">>)
RK == S(<<"]">>)
CL == S(<<":">>)
CM == S(<<",">>)
SP == S(<<" ">>)
NL == S(<<"\n">>)
K == S(<<"\"", "k", "\"">>)
J == S(<<"\"", "j", "\"">>)
N1 == S(<<"1">>)
N2 == S(<<"2">>)
KEY == S(<<"\"", "k", "e", "y", "\"">>)
VALUE == S(<<"\"", "v", "a", "l", "u", "e", "\"">>)
TRUE_ == S(<<"t", "r", "u", "e">>)
NULL_ == S(<<"n", "u", "l", "l">>)
EXTRA == S(<<"e", "x", "t", "r", "a">>)
HUGE == S(<<"1", "e", "9", "9", "9">>)
SURROGATES ==
  S(<<"\"", "\\", "u", "D", "8", "3", "D", "\\", "u", "D", "E", "0", "0", "\"">>)
UNTERMINATED == S(<<"\"", "k">>)
BADESCAPE == S(<<"\"", "\\", "q", "\"">>)
LEADZERO == S(<<"0", "1">>)
HASH == S(<<"#">>)
NULBYTE == <<0>>

\* The pieces every short input is made of.
Chunks == {LB, RB, LK, RK, CL, CM, K, N1}

\* The pieces a document is changed with.
MutChunks ==
  Chunks \cup {N2, SP, EXTRA, HUGE, UNTERMINATED, BADESCAPE, LEADZERO, HASH, NULBYTE}

\* The number of pieces of a short input.
MaxChunks == 3

\* Documents, as their pieces: the scenarios of the tests and of the guide.
Docs ==
  { <<LB, K, CL, N1, CM, K, CL, N2, RB>>,
    <<LB, K, CL, N1, CM, J, CL, LK, RK, CM, K, CL, K, RB>>,
    <<LB, K, CL, LB, K, CL, LB, K, CL, N1, RB, RB, RB>>,
    <<LK, N1, CM, SP, N2, CM, SP, K, CM, SP, TRUE_, CM, SP, NULL_, RK>>,
    <<LB, KEY, CL, SP, VALUE, RB>>,
    <<LB, KEY, SP, VALUE, RB>>,
    <<LB, NL, SP, K, CL, NL, SP, N1, CM, NL, RB>>,
    <<LK, LK, N1, RK, CM, LB, K, CL, LK, RK, RB, RK>>,
    <<LK, HUGE, RK>>,
    <<SURROGATES>>,
    <<LB, RB, SP, LB, RB>>,
    <<LB, RB, EXTRA>> }

RECURSIVE Flatten(_)
Flatten(ss) == IF ss = <<>> THEN <<>> ELSE Head(ss) \o Flatten(Tail(ss))

\* d itself, and d with one piece dropped, replaced or inserted.
Mutations(d) ==
  {d}
  \cup { SubSeq(d, 1, i - 1) \o SubSeq(d, i + 1, Len(d)) : i \in 1..Len(d) }
  \cup { [d EXCEPT ![i] = c] : i \in 1..Len(d), c \in MutChunks }
  \cup { SubSeq(d, 1, i - 1) \o <<c>> \o SubSeq(d, i, Len(d)) :
           i \in 1..(Len(d) + 1), c \in MutChunks }

ShortInputs == { Flatten(ss) : ss \in UNION { [1..n -> Chunks] : n \in 0..MaxChunks } }

DocInputs == { Flatten(m) : m \in UNION { Mutations(d) : d \in Docs } }

Inputs == ShortInputs \cup DocInputs

\* The bytes number literals are made of.
NumChars == S(<<"-", "0", "1", "9", ".", "e">>)

\* The length of the longest number input made of NumChars.
MaxNumLen == 4

\* Number literals of the tests, and literals at the ends of the ranges of
\* the two number types.
NumLiterals ==
  { S(<<"1", "2", "3">>), S(<<"-", "4", "5", "6">>), S(<<"1", "2", "3", ".", "4", "5">>),
    S(<<"0", ".", "1", "2", "3">>), S(<<"1", "E", "+", "1", "0">>),
    S(<<"1", "e", "-", "1", "0">>), S(<<"-", "0", ".", "0">>),
    S(<<"9", "2", "2", "3", "3", "7", "2", "0", "3", "6", "8", "5", "4", "7", "7", "5",
        "8", "0", "7">>),
    S(<<"9", "2", "2", "3", "3", "7", "2", "0", "3", "6", "8", "5", "4", "7", "7", "5",
        "8", "0", "8">>),
    S(<<"-", "9", "2", "2", "3", "3", "7", "2", "0", "3", "6", "8", "5", "4", "7", "7",
        "5", "8", "0", "8">>),
    S(<<"-", "9", "2", "2", "3", "3", "7", "2", "0", "3", "6", "8", "5", "4", "7", "7",
        "5", "8", "0", "9">>),
    S(<<"1", "0", "0", "0", "0", "0", "0", "0", "0", "0", "0", "0", "0", "0", "0", "0",
        "0", "0", "0", "0">>),
    S(<<"1", ".", "7", "9", "7", "6", "9", "3", "1", "3", "4", "8", "6", "2", "3", "1",
        "5", "7", "e", "+", "3", "0", "8">>),
    S(<<"1", ".", "7", "9", "7", "6", "9", "3", "1", "3", "4", "8", "6", "2", "3", "1",
        "5", "9", "e", "3", "0", "8">>),
    S(<<"1", "e", "3", "0", "8">>), S(<<"2", "e", "3", "0", "8">>),
    S(<<"1", "e", "3", "0", "9">>), S(<<"-", "1", "e", "9", "9", "9">>),
    S(<<"0", ".", "0", "1", "e", "3", "1", "0">>), S(<<"0", "e", "9", "9", "9">>),
    S(<<"1", "e", "-", "9", "9", "9">>) }

\* What stands between the quotes of a string input: plain bytes, the
\* one-letter escapes, escapes that are none, Unicode escapes whole and cut
\* short, and raw control bytes.
StrPieces ==
  { S(<<"k">>), S(<<"\\", "\"">>), S(<<"\\", "\\">>), S(<<"\\", "/">>),
    S(<<"\\", "b">>), S(<<"\\", "f">>), S(<<"\\", "n">>), S(<<"\\", "r">>),
    S(<<"\\", "t">>), S(<<"\\", "q">>), S(<<"\\", "x">>), S(<<"\\">>),
    S(<<"\\", "u", "0", "0", "4", "1">>), S(<<"\\", "u", "0", "0", "e", "9">>),
    S(<<"\\", "u", "2", "0", "A", "C">>), S(<<"\\", "u", "D", "8", "3", "D">>),
    S(<<"\\", "u", "D", "E", "0", "0">>), S(<<"\\", "u", "1", "2">>),
    S(<<"\\", "u", "1", "2", "G", "0">>),
    <<Tab>>, <<LineFeed>>, NULBYTE }

\* The number of pieces of a string input.
MaxStrPieces == 2

\* A quote, up to MaxStrPieces pieces, and the closing quote or none.
StrInputs ==
  { S(<<"\"">>) \o Flatten(ps) \o end :
      ps \in UNION { [1..n -> StrPieces] : n \in 0..MaxStrPieces },
      end \in {<<>>, S(<<"\"">>)} }

\* The pieces of an input of keywords: the keywords, keywords in other
\* case, letters, and what ends a run of letters.
KeyPieces ==
  { S(<<"t", "r", "u", "e">>), S(<<"f", "a", "l", "s", "e">>), S(<<"n", "u", "l", "l">>),
    S(<<"T", "r", "u", "e">>), S(<<"F", "A", "L", "S", "E">>), S(<<"l">>), S(<<"k">>),
    S(<<" ">>), S(<<",">>), S(<<"1">>) }

\* The number of pieces of a keyword input.
MaxKeyPieces == 3

KeyInputs ==
  { Flatten(ps) : ps \in UNION { [1..n -> KeyPieces] : n \in 0..MaxKeyPieces } }

NumInputs ==
  NumLiterals
  \cup UNION { { [i \in 1..n |-> NumChars[f[i]]] : f \in [1..n -> 1..Len(NumChars)] } :
               n \in 1..MaxNumLen }

(***************************************************************************)
(* The state machine: a caller holding one lexer and, once New has been    *)
(* called, the parser built on it.  ret is what the last call returned;    *)
(* ncalls counts the calls of Parse and ParseValue, and stays at 2 from    *)
(* the second call on; on a lexer that is called directly it counts the    *)
(* calls of NextToken made after the end of input was returned.  heap and instances belong to the callers that     *)
(* hold two lexers and parsers at once, further down; they stay empty     *)
(* here.  rendered is the text Error() returned to the caller that builds  *)
(* errors, further down, and empty until then.  handler is the handler     *)
(* object of the command line and observed the exit codes its caller has   *)
(* read, further down as well.  pc, frames and val are where a Parse that  *)
(* is followed piece by piece stands, its frames and the value the last    *)
(* parseValue returned.                                                    *)
(***************************************************************************)
VARIABLES lexer, currentToken, peekToken, constructed, ret, ncalls,
          heap, instances, rendered, handler, observed, pc, frames, val

soloVars == <<lexer, currentToken, peekToken, constructed, ret, ncalls>>

pairVars == <<heap, instances>>

vars == <<lexer, currentToken, peekToken, constructed, ret, ncalls, heap, instances,
          rendered, handler, observed, pc, frames, val>>

cliVars == <<handler, observed>>

runVars == <<pc, frames, val>>

\* No object allocated.
EmptyHeap == [lexers |-> <<>>, parsers |-> <<>>]

\* The parser object: its fields, and the lexer it holds.
ThisParser ==
  [lexer |-> lexer, currentToken |-> currentToken, peekToken |-> peekToken]

NoRet == [op |-> "", tok |-> ZeroToken, value |-> Nil, err |-> NoErr]

InitOn(inputs) ==
  /\ \E input \in inputs : lexer = LexerNew(input)
  /\ currentToken = ZeroToken
  /\ peekToken = ZeroToken
  /\ constructed = FALSE
  /\ ret = NoRet
  /\ ncalls = 0
  /\ heap = EmptyHeap
  /\ instances = <<>>
  /\ rendered = <<>>
  /\ handler = HandlerNew
  /\ observed = <<>>
  /\ pc = "idle"
  /\ frames = <<>>
  /\ val = Nil

Init == InitOn(Inputs)

\* l.NextToken(), called on the lexer directly.
CallNextToken ==
  /\ ~constructed
  /\ \E r \in {NextToken(lexer)} :
         /\ lexer' = r.l
         /\ ret' = [op |-> "NextToken", tok |-> r.tok, value |-> Nil, err |-> r.err]
  /\ ncalls' = IF ret.op = "NextToken" /\ ret.tok.Type = "EOF" /\ ncalls < 2
                 THEN ncalls + 1
                 ELSE ncalls
  /\ UNCHANGED <<currentToken, peekToken, constructed>>
  /\ UNCHANGED pairVars
  /\ UNCHANGED rendered
  /\ UNCHANGED cliVars
  /\ UNCHANGED runVars

\* p := parser.New(l), with l as lexer.New returned it.
CallNew ==
  /\ ~constructed
  /\ ret = NoRet
  /\ \E p \in {ParserNew(lexer)} :
         /\ lexer' = p.lexer
         /\ currentToken' = p.currentToken
         /\ peekToken' = p.peekToken
  /\ constructed' = TRUE
  /\ UNCHANGED <<ret, ncalls>>
  /\ UNCHANGED pairVars
  /\ UNCHANGED rendered
  /\ UNCHANGED cliVars
  /\ UNCHANGED runVars

\* The state after a call of the parser that returned r.
Returned(op, r) ==
  /\ lexer' = r.p.lexer
  /\ currentToken' = r.p.currentToken
  /\ peekToken' = r.p.peekToken
  /\ ret' = [op |-> op, tok |-> ZeroToken, value |-> r.value, err |-> r.err]
  /\ ncalls' = IF ncalls < 2 THEN ncalls + 1 ELSE ncalls
  /\ UNCHANGED constructed
  /\ UNCHANGED pairVars
  /\ UNCHANGED rendered
  /\ UNCHANGED cliVars
  /\ UNCHANGED runVars

\* p.Parse()
CallParse ==
  /\ constructed
  /\ Returned("Parse", Parse(ThisParser))

\* p.ParseValue()
CallParseValue ==
  /\ constructed
  /\ Returned("ParseValue", ParseValue(ThisParser))

Next == CallNextToken \/ CallNew \/ CallParse \/ CallParseValue

Spec == Init /\ [][Next]_vars

\* The same caller, on inputs that are number literals or nearly so.
InitNum == InitOn(NumInputs)

SpecNum == InitNum /\ [][Next]_vars

\* The same caller, on inputs that start a string.
InitStr == InitOn(StrInputs)

SpecStr == InitStr /\ [][Next]_vars

\* The same caller, on inputs made of keywords and letters.
InitKey == InitOn(KeyInputs)

SpecKey == InitKey /\ [][Next]_vars

(***************************************************************************)
(* Two callers at once, each with an input of its own: each calls          *)
(* lexer.New, parser.New and Parse once, and their calls interleave in any *)
(* order.  New returns a pointer, so the objects live in a heap and a      *)
(* caller holds addresses: heap.lexers and heap.parsers are the lexer and  *)
(* parser objects allocated so far, a parser object holding the address of *)
(* its lexer.  The packages have no variable outside these objects, and a  *)
(* call reads and writes only the objects it reaches from its receiver, so *)
(* a call is one step whatever the scheduling of the callers.              *)
(***************************************************************************)
\* The inputs of the two callers.
PairInputs ==
  { Flatten(d) : d \in { <<LB, RB>>, <<LK, N1, CM, N2, RK>>, <<LB, K, CL, N1, RB>>,
                         <<LK, N1, RB>>, <<UNTERMINATED>>, <<LK, HUGE, RK>> } }

\* The address of the object a composite literal &T{...} allocates: one no
\* object has yet.
allocShared(objects) == 1

alloc(objects) == Len(objects) + 1

\* The objects once object is written at address.
store(objects, address, object) ==
  IF address > Len(objects) THEN Append(objects, object)
  ELSE [objects EXCEPT ![address] = object]

\* A caller that has called nothing yet: l and p are the addresses of its
\* lexer and parser, 0 while it has none.
NewInstance(input) == [input |-> input, l |-> 0, p |-> 0, done |-> FALSE, ret |-> NoRet]

\* The parser at an address, with its lexer.
deref(h, address) ==
  [lexer |-> h.lexers[h.parsers[address].lexer],
   currentToken |-> h.parsers[address].currentToken,
   peekToken |-> h.parsers[address].peekToken]

\* The heap once the parser at an address, and its lexer, are as p has them.
writeBack(h, address, lexerAddress, p) ==
  [lexers |-> store(h.lexers, lexerAddress, p.lexer),
   parsers |-> store(h.parsers, address,
                     [lexer |-> lexerAddress, currentToken |-> p.currentToken,
                      peekToken |-> p.peekToken])]

InitPair ==
  /\ lexer = LexerNew(<<>>)
  /\ currentToken = ZeroToken
  /\ peekToken = ZeroToken
  /\ constructed = FALSE
  /\ ret = NoRet
  /\ ncalls = 0
  /\ heap = EmptyHeap
  /\ \E a, b \in PairInputs : instances = <<NewInstance(a), NewInstance(b)>>
  /\ rendered = <<>>
  /\ handler = HandlerNew
  /\ observed = <<>>
  /\ pc = "idle"
  /\ frames = <<>>
  /\ val = Nil

\* l := lexer.New(input), by caller i.
PairLexerNew(i) ==
  /\ instances[i].l = 0
  /\ \E a \in {alloc(heap.lexers)} :
         /\ heap' = [heap EXCEPT !.lexers = store(@, a, LexerNew(instances[i].input))]
         /\ instances' = [instances EXCEPT ![i].l = a]
  /\ UNCHANGED soloVars
  /\ UNCHANGED rendered
  /\ UNCHANGED cliVars
  /\ UNCHANGED runVars

\* p := parser.New(l), by caller i.
PairParserNew(i) ==
  /\ instances[i].l # 0
  /\ instances[i].p = 0
  /\ \E a \in {alloc(heap.parsers)} :
         /\ heap' = writeBack(heap, a, instances[i].l,
                              ParserNew(heap.lexers[instances[i].l]))
         /\ instances' = [instances EXCEPT ![i].p = a]
  /\ UNCHANGED soloVars
  /\ UNCHANGED rendered
  /\ UNCHANGED cliVars
  /\ UNCHANGED runVars

\* p.Parse(), by caller i.
PairParse(i) ==
  /\ instances[i].p # 0
  /\ ~instances[i].done
  /\ \E r \in {Parse(deref(heap, instances[i].p))} :
         /\ heap' = writeBack(heap, instances[i].p, heap.parsers[instances[i].p].lexer, r.p)
         /\ instances' = [instances EXCEPT
                            ![i].done = TRUE,
                            ![i].ret = [op |-> "Parse", tok |-> ZeroToken,
                                        value |-> r.value, err |-> r.err]]
  /\ UNCHANGED soloVars
  /\ UNCHANGED rendered
  /\ UNCHANGED cliVars
  /\ UNCHANGED runVars

SomeLexerNew == \E i \in 1..2 : PairLexerNew(i)

SomeParserNew == \E i \in 1..2 : PairParserNew(i)

SomeParse == \E i \in 1..2 : PairParse(i)

NextPair == SomeLexerNew \/ SomeParserNew \/ SomeParse

SpecPair == InitPair /\ [][NextPair]_vars

(***************************************************************************)
(* A caller that builds one error with a constructor of the error type and *)
(* asks for its text.  The token is the one the parser reports its error   *)
(* at for a source; the source text handed to the constructor is that      *)
(* source, or empty.                                                       *)
(***************************************************************************)
\* Sources the parser rejects at a token of the lexer: at the end of the
\* input, in the middle of a line, on a later line, at the start of an
\* empty last line.
ErrSources ==
  { <<>>, S(<<"{">>), S(<<"[", "1", ",", "]">>),
    S(<<"{", "\"", "k", "\"", " ", "1", "}">>),
    S(<<"{", "\n", "\"", "k", "\"", ":", "\n", "}">>),
    S(<<"1", " ", "2">>), S(<<"[", "1", ",", "\n">>) }

\* The token Parse reports its error at.
ErrToken(source) == Parse(ParserNew(LexerNew(source))).err.Token

\* The tokens NewParseError is called with: those of the sources, and the
\* Invalid token x at line 1, column 1.
ParseErrorTokens ==
  {ErrToken(source) : source \in ErrSources}
    \cup {Token("INVALID", S(<<"x">>), Position(1, 1, 0))}

ErrMessages ==
  { S(<<"t", "e", "s", "t", " ", "e", "r", "r", "o", "r", " ",
        "m", "e", "s", "s", "a", "g", "e">>),
    S(<<"e", "x", "p", "e", "c", "t", "e", "d", " ", "'", ":", "'">>) }

ErrExpected ==
  { <<>>, <<S(<<"'", ":", "'">>)>>, <<S(<<"'", ",", "'">>), S(<<"'", "}", "'">>)>> }

\* No suggestion, and SuggestionMissingColon.
ErrSuggestions ==
  { <<>>,
    S(<<"A", "d", "d", " ", "a", " ", "'", ":", "'", " ", "a", "f", "t", "e", "r", " ",
        "t", "h", "e", " ", "o", "b", "j", "e", "c", "t", " ", "k", "e", "y">>) }

InitErr ==
  /\ lexer = LexerNew(<<>>)
  /\ currentToken = ZeroToken
  /\ peekToken = ZeroToken
  /\ constructed = FALSE
  /\ ret = NoRet
  /\ ncalls = 0
  /\ heap = EmptyHeap
  /\ instances = <<>>
  /\ rendered = <<>>
  /\ handler = HandlerNew
  /\ observed = <<>>
  /\ pc = "idle"
  /\ frames = <<>>
  /\ val = Nil

\* What the constructor op returns: the error e.
BuiltRet(op, e) == [op |-> op, tok |-> ZeroToken, value |-> Nil, err |-> e]

\* What a constructor leaves alone.
builtFrame ==
  <<lexer, currentToken, peekToken, constructed, ncalls, heap, instances, rendered,
    handler, observed, pc, frames, val>>

\* err := NewParseError(message, token)
CallNewParseError ==
  /\ ret = NoRet
  /\ \E token \in ParseErrorTokens, message \in ErrMessages :
       ret' = BuiltRet("NewParseError", NewParseError(message, token))
  /\ UNCHANGED builtFrame

\* err := NewLexicalError(message, token, suggestion, sourceInput)
CallNewLexicalError ==
  /\ ret = NoRet
  /\ \E source \in ErrSources, message \in ErrMessages,
        suggestion \in ErrSuggestions :
       \E sourceInput \in {source, <<>>} :
         ret' = BuiltRet("NewLexicalError",
                         NewLexicalError(message, ErrToken(source), suggestion,
                                         sourceInput))
  /\ UNCHANGED builtFrame

\* err := NewSyntaxError(message, token, expected, suggestion, sourceInput)
CallNewSyntaxError ==
  /\ ret = NoRet
  /\ \E source \in ErrSources, message \in ErrMessages, expected \in ErrExpected,
        suggestion \in ErrSuggestions :
       \E sourceInput \in {source, <<>>} :
         ret' = BuiltRet("NewSyntaxError",
                         NewSyntaxError(message, ErrToken(source), expected,
                                        suggestion, sourceInput))
  /\ UNCHANGED builtFrame

\* err := NewSemanticError(message, token, suggestion, sourceInput)
CallNewSemanticError ==
  /\ ret = NoRet
  /\ \E source \in ErrSources, message \in ErrMessages,
        suggestion \in ErrSuggestions :
       \E sourceInput \in {source, <<>>} :
         ret' = BuiltRet("NewSemanticError",
                         NewSemanticError(message, ErrToken(source), suggestion,
                                          sourceInput))
  /\ UNCHANGED builtFrame

\* err.Error()
CallError ==
  /\ ret # NoRet
  /\ rendered = <<>>
  /\ rendered' = Error(ret.err)
  /\ UNCHANGED soloVars
  /\ UNCHANGED pairVars
  /\ UNCHANGED cliVars
  /\ UNCHANGED runVars

NextErr ==
  \/ CallNewParseError
  \/ CallNewLexicalError
  \/ CallNewSyntaxError
  \/ CallNewSemanticError
  \/ CallError

SpecErr == InitErr /\ [][NextErr]_vars

(***************************************************************************)
(* A caller of the command line handler: it calls ParseString and          *)
(* ParseFile on one handler in any order and reads the exit code between   *)
(* the calls, MaxObserved times at most.                                   *)
(***************************************************************************)
\* The number of exit codes the caller reads.
MaxObserved == 3

\* The strings handed to ParseString: those of the tests, and others.
CliInputs == PairInputs \cup {<<>>, S(<<"n", "u", "l", "l">>), S(<<"T", "r", "u", "e">>)}

InitCli == InitErr

\* What the handler method op returned.
HandlerCallRet(op, err) == [op |-> op, tok |-> ZeroToken, value |-> Nil, err |-> err]

\* What a call of the handler leaves alone.
cliFrame ==
  <<lexer, currentToken, peekToken, constructed, ncalls, heap, instances, rendered,
    observed, pc, frames, val>>

\* err := h.ParseString(input)
CallParseString ==
  /\ \E input \in CliInputs :
       \E r \in {HandlerParseString(handler, input)} :
         /\ handler' = r.h
         /\ ret' = HandlerCallRet("ParseString", r.err)
  /\ UNCHANGED cliFrame

\* err := h.ParseFile(filename)
CallParseFile ==
  /\ \E filename \in DOMAIN FileSystem :
       \E r \in {HandlerParseFile(handler, filename)} :
         /\ handler' = r.h
         /\ ret' = HandlerCallRet("ParseFile", r.err)
  /\ UNCHANGED cliFrame

\* h.ExitCode()
CallExitCode ==
  /\ Len(observed) < MaxObserved
  /\ observed' = Append(observed, ExitCode(handler))
  /\ UNCHANGED soloVars
  /\ UNCHANGED pairVars
  /\ UNCHANGED <<rendered, handler>>
  /\ UNCHANGED runVars

NextCli == CallParseString \/ CallParseFile \/ CallExitCode

SpecCli == InitCli /\ [][NextCli]_vars

(***************************************************************************)
(* One call of Parse on a fresh parser, followed piece by piece: from the  *)
(* entry of parseValue to the loop of a container or to its return, once   *)
(* round the loop of parseObject or parseArray, and the end of Parse.      *)
(* The code that runs Parse is not held up, so a piece that can run does:  *)
(* the fairness of SpecRun is weak fairness of NextRun, written with the   *)
(* condition under which NextRun can take a step spelled out.              *)
(***************************************************************************)
InitRun == InitOn(Inputs)

\* The state the code reaches with c.
Becomes(c) ==
  /\ lexer' = c.p.lexer
  /\ currentToken' = c.p.currentToken
  /\ peekToken' = c.p.peekToken
  /\ pc' = c.pc
  /\ frames' = c.frames
  /\ val' = c.val
  /\ ret' = IF c.pc = "done"
              THEN [op |-> "Parse", tok |-> ZeroToken, value |-> c.val, err |-> c.err]
              ELSE ret
  /\ ncalls' = IF c.pc = "done" THEN ncalls + 1 ELSE ncalls
  /\ UNCHANGED constructed
  /\ UNCHANGED pairVars
  /\ UNCHANGED rendered
  /\ UNCHANGED cliVars

\* p.Parse() is called and calls ParseValue, which calls parseValue.
StepParse ==
  /\ constructed
  /\ pc = "idle"
  /\ pc' = "parseValue"
  /\ UNCHANGED <<frames, val>>
  /\ UNCHANGED soloVars
  /\ UNCHANGED pairVars
  /\ UNCHANGED rendered
  /\ UNCHANGED cliVars

\* parseValue, to the loop of the container it opens or to its return.
StepValue ==
  /\ pc = "parseValue"
  /\ Becomes(valueStep(ThisParser, frames))

\* The loop of parseObject: the key and the colon.
StepObjectKey ==
  /\ pc = "objectLoop"
  /\ Becomes(objectKeyStep(ThisParser, frames))

\* The loop of parseObject: the value is stored; a brace or a comma.
StepObjectMember ==
  /\ pc = "returned"
  /\ frames # <<>>
  /\ Top(frames).fn = "parseObject"
  /\ Becomes(objectMemberStep(ThisParser, frames, val))

\* The loop of parseArray: the value is appended; a bracket or a comma.
StepArrayElement ==
  /\ pc = "returned"
  /\ frames # <<>>
  /\ Top(frames).fn = "parseArray"
  /\ Becomes(arrayElementStep(ThisParser, frames, val))

\* Parse: ParseValue has returned a value.
StepParseEnd ==
  /\ pc = "returned"
  /\ frames = <<>>
  /\ Becomes(parseEndStep(ThisParser, val))

NextRun ==
  \/ CallNew
  \/ StepParse
  \/ StepValue
  \/ StepObjectKey
  \/ StepObjectMember
  \/ StepArrayElement
  \/ StepParseEnd

\* A piece of code of the running Parse is ready to run.
Ready ==
  \/ pc \in {"parseValue", "objectLoop"}
  \/ pc = "returned" /\ (frames = <<>> \/ Top(frames).fn \in {"parseObject", "parseArray"})

\* NextRun can take a step: the guards of its actions.
RunEnabled ==
  \/ ~constructed /\ ret = NoRet
  \/ constructed /\ pc = "idle"
  \/ pc \notin {"idle", "done"} /\ Ready

\* Weak fairness of NextRun: the code is not ready to run infinitely
\* often, or it runs infinitely often.
RunFairness == []<>(~RunEnabled) \/ []<><<NextRun>>_vars

SpecRun == InitRun /\ [][NextRun]_vars /\ RunFairness

(***************************************************************************)
(* What the claims are stated against: the tokens of the input and the     *)
(* JSON grammar over token types, as a pushdown automaton.                 *)
(***************************************************************************)
\* What the calls of NextToken return on a lexer, up to the EOF token or the
\* first failure.
RECURSIVE RunFrom(_)
RunFrom(l) ==
  LET r == NextToken(l)
  IN  IF r.err # NoErr \/ r.tok.Type = "EOF" THEN <<r>> ELSE <<r>> \o RunFrom(r.l)

\* The run of the input of this state.
RawRun == RunFrom(LexerNew(lexer.input))

\* The token the parser holds for what NextToken returned.
Seen(r) ==
  IF r.err # NoErr THEN Token("INVALID", r.err, LexerPosition(r.l)) ELSE r.tok

ViewOf(run) == [i \in 1..Len(run) |-> Seen(run[i])]

TypesOf(view) == [i \in 1..Len(view) |-> view[i].Type]

\* The automaton: mode says what may come next, stack holds the open
\* containers, innermost first.
GrammarStart == [mode |-> "value", stack |-> <<>>]

GrammarDead == [mode |-> "dead", stack |-> <<>>]

AfterValue(stack) == [mode |-> IF stack = <<>> THEN "end" ELSE "sep", stack |-> stack]

GrammarStep(st, t) ==
  CASE st.mode \in {"value", "elem_or_close"}
         /\ t \in {"STRING", "NUMBER", "BOOLEAN", "NULL"} -> AfterValue(st.stack)
    [] st.mode \in {"value", "elem_or_close"} /\ t = "LEFT_BRACE" ->
         [mode |-> "key_or_close", stack |-> <<"object">> \o st.stack]
    [] st.mode \in {"value", "elem_or_close"} /\ t = "LEFT_BRACKET" ->
         [mode |-> "elem_or_close", stack |-> <<"array">> \o st.stack]
    [] st.mode = "elem_or_close" /\ t = "RIGHT_BRACKET" -> AfterValue(Tail(st.stack))
    [] st.mode = "key_or_close" /\ t = "RIGHT_BRACE" -> AfterValue(Tail(st.stack))
    [] st.mode \in {"key_or_close", "key"} /\ t = "STRING" -> [st EXCEPT !.mode = "colon"]
    [] st.mode = "colon" /\ t = "COLON" -> [st EXCEPT !.mode = "value"]
    [] st.mode = "sep" /\ t = "COMMA" ->
         [st EXCEPT !.mode = IF Head(st.stack) = "object" THEN "key" ELSE "value"]
    [] st.mode = "sep" /\ t = "RIGHT_BRACE" /\ Head(st.stack) = "object" ->
         AfterValue(Tail(st.stack))
    [] st.mode = "sep" /\ t = "RIGHT_BRACKET" /\ Head(st.stack) = "array" ->
         AfterValue(Tail(st.stack))
    [] st.mode = "end" /\ t = "EOF" -> [st EXCEPT !.mode = "done"]
    [] OTHER -> GrammarDead

\* The automaton after the first n of the types.
RECURSIVE GrammarAfter(_, _)
GrammarAfter(types, n) ==
  IF n = 0 THEN GrammarStart ELSE GrammarStep(GrammarAfter(types, n - 1), types[n])

\* The types are exactly one value followed by end of input.
Grammatical(types) == GrammarAfter(types, Len(types)).mode = "done"

\* The first token no valid document has after the ones before it, 0 when
\* there is none.
FirstBad(types) ==
  IF \E n \in 1..Len(types) : GrammarAfter(types, n).mode = "dead"
    THEN CHOOSE n \in 1..Len(types) :
           /\ GrammarAfter(types, n).mode = "dead"
           /\ GrammarAfter(types, n - 1).mode # "dead"
    ELSE 0

\* The first call of Parse on a parser built on a fresh lexer has returned.
IsFirstParse == constructed /\ ncalls = 1 /\ ret.op = "Parse"

\* The parser failed at token i of the view.
FailedAt(view, i) == i \in 1..Len(view) /\ ret.err.Token = view[i]

(***************************************************************************)
(* The reading of a number literal the claims are stated against: text is  *)
(* the text of a NUMBER token, so an optional minus, an integer part       *)
(* without leading zero, an optional fraction and an optional exponent.    *)
(***************************************************************************)
\* a < b, a = b for digit sequences of one length, most significant first.
DigitsLess(a, b) ==
  \E i \in 1..Len(a) : a[i] < b[i] /\ \A j \in 1..(i - 1) : a[j] = b[j]

\* The index of the first byte of text that is in set, Len(text) + 1 if none.
IndexOf(text, set) ==
  IF \E i \in 1..Len(text) : text[i] \in set
    THEN CHOOSE i \in 1..Len(text) :
           text[i] \in set /\ \A j \in 1..(i - 1) : text[j] \notin set
    ELSE Len(text) + 1

\* The number a sequence of digits writes.
RECURSIVE NatOf(_)
NatOf(d) == IF d = <<>> THEN 0 ELSE 10 * NatOf(SubSeq(d, 1, Len(d) - 1)) + d[Len(d)]

\* No fraction and no exponent.
IsIntegerLiteral(text) == \A i \in 1..Len(text) : text[i] = Minus \/ isDigit(text[i])

\* The parts of a literal: its sign, the digits of its integer part and of its
\* fraction, and its exponent.
LiteralParts(text) ==
  LET neg == text[1] = Minus
      body == IF neg THEN Tail(text) ELSE text
      e == IndexOf(body, {LowerE, UpperE})
      dot == IndexOf(SubSeq(body, 1, e - 1), {Dot})
      expText == SubSeq(body, e + 1, Len(body))
      expNeg == expText # <<>> /\ expText[1] = Minus
      expDigits == IF expText # <<>> /\ expText[1] \in {Plus, Minus}
                     THEN Tail(expText) ELSE expText
  IN  [neg |-> neg,
       int |-> digitsOf(SubSeq(body, 1, dot - 1)),
       frac |-> digitsOf(SubSeq(body, dot + 1, e - 1)),
       exp |-> IF expNeg THEN 0 - NatOf(digitsOf(expDigits))
                         ELSE NatOf(digitsOf(expDigits))]

\* The number of zeros a digit sequence starts with.
LeadingZeros(d) == IndexOf(d, 1..9) - 1

\* The literal as sign, significant digits and decimal exponent of the first
\* of them; no significant digit for zero.
Decimal(text) ==
  LET parts == LiteralParts(text)
      all == parts.int \o parts.frac
      lead == LeadingZeros(all)
      last == IF lead = Len(all) THEN lead
              ELSE CHOOSE i \in 1..Len(all) :
                     all[i] # 0 /\ \A j \in (i + 1)..Len(all) : all[j] = 0
  IN  [neg |-> parts.neg,
       mant |-> SubSeq(all, lead + 1, last),
       exp |-> IF lead = Len(all) THEN 0 ELSE parts.exp + Len(parts.int) - 1 - lead]

\* digits padded with zeros, or cut, to length n.
Padded(digits, n) == [i \in 1..n |-> IF i <= Len(digits) THEN digits[i] ELSE 0]

\* The magnitude of an integer literal is at most that of bound.
MagnitudeAtMost(text, bound) ==
  LET d == Decimal(text)
      n == Len(bound)
  IN  \/ d.mant = <<>>
      \/ d.exp + 1 < n
      \/ d.exp + 1 = n /\ (Padded(d.mant, n) = bound \/ DigitsLess(Padded(d.mant, n), bound))

\* The literal is an integer literal of the signed 64-bit range.
FitsInt64(text) ==
  /\ IsIntegerLiteral(text)
  /\ MagnitudeAtMost(text, IF text[1] = Minus THEN MinInt64Mag ELSE MaxInt64)

\* The literal rounds to a finite 64-bit float.
InFloat64Range(text) ==
  LET d == Decimal(text)
      n == Len(OverflowDigits)
  IN  \/ d.mant = <<>>
      \/ d.exp < 308
      \/ d.exp = 308 /\ DigitsLess(Padded(d.mant, n), OverflowDigits)

\* The literal has a value of one of the two number types.
Representable(text) == FitsInt64(text) \/ InFloat64Range(text)

\* Every number among the first n tokens of the view is representable.
NumbersRepresentable(view, n) ==
  \A i \in 1..n : view[i].Type = "NUMBER" => Representable(view[i].Value)

(***************************************************************************)
(* The value of a document as JSON defines it, computed from the tokens    *)
(* with a stack of open containers.                                        *)
(***************************************************************************)
\* The bytes of the input a token was read from, r what NextToken returned.
RawText(r) == SubSeq(lexer.input, r.tok.Position.Offset + 1, r.l.position.Offset)

\* The text between the quotes of a string token.
StringBody(r) == SubSeq(RawText(r), 2, Len(RawText(r)) - 1)

\* The number four hexadecimal digits write.
HexNat(h) ==
  LET v(c) == IF c <= Digit9 THEN c - Digit0
              ELSE IF c <= UpperF THEN c - UpperA + 10 ELSE c - LowerA + 10
  IN  ((v(h[1]) * 16 + v(h[2])) * 16 + v(h[3])) * 16 + v(h[4])

\* UTF-8 of a code point.
UTF8(cp) ==
  IF cp < 128 THEN <<cp>>
  ELSE IF cp < 2048 THEN <<192 + (cp \div 64), 128 + (cp % 64)>>
  ELSE IF cp < 65536
    THEN <<224 + (cp \div 4096), 128 + ((cp \div 64) % 64), 128 + (cp % 64)>>
  ELSE <<240 + (cp \div 262144), 128 + ((cp \div 4096) % 64),
         128 + ((cp \div 64) % 64), 128 + (cp % 64)>>

\* The character a one-letter escape writes.
EscapeChar(c) ==
  CASE c = LowerB -> Backspace [] c = LowerF -> FormFeed [] c = LowerN -> LineFeed
    [] c = LowerR -> CarriageReturn [] c = LowerT -> Tab [] OTHER -> c

IsHighSurrogate(cp) == cp >= 55296 /\ cp <= 56319
IsLowSurrogate(cp) == cp >= 56320 /\ cp <= 57343

\* The text a string body writes (RFC 8259, section 7): a high surrogate
\* escape followed by a low surrogate escape writes one character beyond the
\* basic plane; a lone surrogate writes U+FFFD.
RECURSIVE Unescape(_)
Unescape(body) ==
  IF body = <<>> THEN <<>>
  ELSE IF body[1] # Backslash THEN <<body[1]>> \o Unescape(Tail(body))
  ELSE IF body[2] # LowerU
    THEN <<EscapeChar(body[2])>> \o Unescape(SubSeq(body, 3, Len(body)))
  ELSE
    LET hi == HexNat(SubSeq(body, 3, 6))
        paired == /\ IsHighSurrogate(hi)
                  /\ Len(body) >= 12
                  /\ body[7] = Backslash /\ body[8] = LowerU
                  /\ IsLowSurrogate(HexNat(SubSeq(body, 9, 12)))
    IN  IF paired
          THEN UTF8(65536 + (hi - 55296) * 1024 + (HexNat(SubSeq(body, 9, 12)) - 56320))
                 \o Unescape(SubSeq(body, 13, Len(body)))
        ELSE UTF8(IF IsHighSurrogate(hi) \/ IsLowSurrogate(hi) THEN 65533 ELSE hi)
               \o Unescape(SubSeq(body, 7, Len(body)))

\* The value of a number literal: an Integer when it is an integer literal of
\* the 64-bit range, a Float otherwise.
NumberOf(text) ==
  LET d == Decimal(text)
  IN  IF FitsInt64(text)
        THEN Int64Value(d.neg /\ d.mant # <<>>,
                        IF d.mant = <<>> THEN <<0>> ELSE Padded(d.mant, d.exp + 1))
        ELSE Float64Value(d.neg, d.mant, d.exp)

\* The value of a primitive token; text is the text of a string token.
LeafOf(r, text) ==
  CASE r.tok.Type = "STRING" -> StringValue(text)
    [] r.tok.Type = "NUMBER" -> NumberOf(r.tok.Value)
    [] r.tok.Type = "BOOLEAN" -> BoolValue(r.tok.Value = TrueText)
    [] OTHER -> Nil

\* Every primitive of the run as JSON defines it.
StrictLeaves(run) ==
  [i \in 1..Len(run) |->
     LeafOf(run[i], IF run[i].tok.Type = "STRING" /\ run[i].err = NoErr
                      THEN Unescape(StringBody(run[i])) ELSE <<>>)]

\* Every primitive of the run, a string as the lexer decoded it.
LexedLeaves(run) == [i \in 1..Len(run) |-> LeafOf(run[i], run[i].tok.Value)]

\* The object of the pairs <<key, value>> of a document, in document order:
\* one entry for each distinct key, the value of its last occurrence.
ObjectOf(pairs) ==
  ObjectValue([k \in {pairs[j][1] : j \in 1..Len(pairs)} |->
                 pairs[CHOOSE j \in 1..Len(pairs) :
                         /\ pairs[j][1] = k
                         /\ \A m \in (j + 1)..Len(pairs) : pairs[m][1] # k][2]])

\* The stack after value v is complete: v goes to the innermost open
\* container; with none open v is the document.
Attach(stack, v) ==
  IF stack = <<>> THEN <<[kind |-> "document", items |-> <<v>>, key |-> <<>>]>>
  ELSE IF Head(stack).kind = "array"
    THEN <<[Head(stack) EXCEPT !.items = Append(@, v)]>> \o Tail(stack)
  ELSE <<[Head(stack) EXCEPT !.items = Append(@, <<Head(stack).key[1], v>>),
                             !.key = <<>>]>> \o Tail(stack)

\* The stack after the first n tokens of a grammatical document.
RECURSIVE StackAfter(_, _, _)
StackAfter(types, leaves, n) ==
  IF n = 0 THEN <<>>
  ELSE
    LET stack == StackAfter(types, leaves, n - 1)
        t == types[n]
    IN  CASE t = "LEFT_BRACE" ->
               <<[kind |-> "object", items |-> <<>>, key |-> <<>>]>> \o stack
          [] t = "LEFT_BRACKET" ->
               <<[kind |-> "array", items |-> <<>>, key |-> <<>>]>> \o stack
          [] t = "RIGHT_BRACE" -> Attach(Tail(stack), ObjectOf(Head(stack).items))
          [] t = "RIGHT_BRACKET" -> Attach(Tail(stack), ArrayValue(Head(stack).items))
          [] t = "STRING" /\ stack # <<>> /\ Head(stack).kind = "object"
               /\ Head(stack).key = <<>> ->
               <<[Head(stack) EXCEPT !.key = <<leaves[n].v>>]>> \o Tail(stack)
          [] t \in {"STRING", "NUMBER", "BOOLEAN", "NULL"} -> Attach(stack, leaves[n])
          [] OTHER -> stack

\* The value of a grammatical document.
ValueOf(types, leaves) == StackAfter(types, leaves, Len(types))[1].items[1]

\* Some object of a grammatical document has one key twice.
HasDuplicateKey(types, leaves) ==
  \E n \in 1..Len(types) :
    /\ types[n] = "RIGHT_BRACE"
    /\ LET pairs == Head(StackAfter(types, leaves, n - 1)).items
       IN  \E i, j \in 1..Len(pairs) : i < j /\ pairs[i][1] = pairs[j][1]

\* The input is a document of the strict grammar: its tokens are one value,
\* the end of input is the end of the bytes, and its strings hold no control
\* byte and no byte beyond ASCII unescaped.
StrictValid(run) ==
  /\ Grammatical(TypesOf(ViewOf(run)))
  /\ run[Len(run)].tok.Position.Offset = Len(lexer.input)
  /\ \A i \in 1..Len(run) :
       run[i].tok.Type = "STRING" =>
         \A j \in 1..Len(StringBody(run[i])) :
           StringBody(run[i])[j] >= 32 /\ StringBody(run[i])[j] < 127

(***************************************************************************)
(* The properties.                                                         *)
(***************************************************************************)
\* The tokens of the input as the parser sees them, and their types.
View == ViewOf(RawRun)

Types == TypesOf(View)

\* The lexer as it is when the scan of token i of the run starts.
LexerBefore(i) == IF i = 1 THEN LexerNew(lexer.input) ELSE RawRun[i - 1].l

\* The position of the first byte of token i of the run.
TokenStart(i) == LexerPosition(skipWhitespace(LexerBefore(i)))

\* The bracket that closes a container.
Closer(kind) == IF kind = "object" THEN "RIGHT_BRACE" ELSE "RIGHT_BRACKET"

\* Token n is a comma inside a container and token n + 1 closes that
\* container.
CommaBeforeCloserAt(n) ==
  /\ n \in 1..(Len(Types) - 1)
  /\ GrammarAfter(Types, n - 1).stack # <<>>
  /\ Types[n] = "COMMA"
  /\ Types[n + 1] = Closer(Head(GrammarAfter(Types, n - 1).stack))

\* Token n is a trailing comma: it follows a member or an element, the
\* tokens before it start a valid document with every number in range, and
\* token n + 1 closes the container.
TrailingCommaAt(n) ==
  /\ CommaBeforeCloserAt(n)
  /\ GrammarAfter(Types, n - 1).mode = "sep"
  /\ NumbersRepresentable(View, n)

\* The first n tokens are a complete value and token n + 1 is not the end of
\* the input.
TrailingTokenAt(n) ==
  /\ n \in 1..(Len(Types) - 1)
  /\ GrammarAfter(Types, n).mode = "end"
  /\ Types[n + 1] # "EOF"

\* The input is one number token.
IsNumberInput == Types = <<"NUMBER", "EOF">>

\* The text of the number of such an input.
NumberText == View[1].Value

\* `{"key" "value"}`, the example of the error guide.
MissingColonInput == Flatten(<<LB, KEY, SP, VALUE, RB>>)

\* C1, as the specification states it: on every input valid per the strict
\* JSON grammar, the first Parse of a fresh parser succeeds and returns the
\* value the document writes.  Stated here for the documents whose numbers
\* are all in the range of int64 or float64, so that what refutes it is a
\* string: an escaped surrogate pair is decoded as two U+FFFD.
C1_StrictDocumentParsesToItsValue ==
  IsFirstParse /\ StrictValid(RawRun) /\ NumbersRepresentable(View, Len(View))
    => /\ ret.err = NoErr
       /\ ret.value = ValueOf(Types, StrictLeaves(RawRun))

\* C2: Parse returns an error for every input whose tokens are not exactly
\* one value of the JSON grammar followed by the end of the input.
C2_UngrammaticalInputRejected ==
  IsFirstParse /\ ~Grammatical(Types) => ret.err # NoErr

\* C2's case: an array closed by '}' is rejected at the '}'.
C2_WrongCloserRejected ==
  /\ IsFirstParse
  /\ ~Grammatical(Types)
  /\ ret.err # NoErr
  /\ ret.err.Message = "expected ',' or ']'"
  /\ ret.err.Token.Type = "RIGHT_BRACE"

\* C3, amended: when a comma that follows a member of an object or an
\* element of an array is followed by the bracket closing that container,
\* and up to the comma the input starts a valid document whose numbers are
\* in range, Parse fails with a Syntax error "trailing comma not allowed",
\* reported at the closing bracket.
C3_TrailingCommaRejected ==
  IsFirstParse =>
    \A n \in 1..Len(Types) :
      TrailingCommaAt(n) =>
        /\ ret.err # NoErr
        /\ ret.err.Type = "Syntax"
        /\ ret.err.Message = "trailing comma not allowed"
        /\ FailedAt(View, n + 1)

\* C3's case: a trailing comma in an object.
C3_TrailingCommaSeen ==
  /\ IsFirstParse
  /\ ret.err # NoErr
  /\ ret.err.Message = "trailing comma not allowed"
  /\ \E n \in 1..Len(Types) : TrailingCommaAt(n) /\ Types[n + 1] = "RIGHT_BRACE"

\* C3, as stated: whenever a comma inside an object or an array is followed
\* by the closing bracket, Parse fails with a Syntax error that names a
\* trailing comma.
C3_AnyCommaBeforeCloser ==
  IsFirstParse /\ (\E n \in 1..Len(Types) : CommaBeforeCloserAt(n))
    => /\ ret.err # NoErr
       /\ ret.err.Type = "Syntax"
       /\ ret.err.Message = "trailing comma not allowed"

\* C4, amended: when a complete top-level value whose numbers are in range
\* is followed by a further token, Parse fails at that token with the
\* message "expected EOF after JSON value".
C4_TrailingTokenRejected ==
  IsFirstParse =>
    \A n \in 1..Len(Types) :
      TrailingTokenAt(n) /\ NumbersRepresentable(View, n) =>
        /\ ret.err # NoErr
        /\ ret.err.Message = "expected EOF after JSON value"
        /\ FailedAt(View, n + 1)

\* C4's case: a second value after the first, as in `{} {}`.
C4_SecondValueSeen ==
  /\ IsFirstParse
  /\ TrailingTokenAt(2)
  /\ Types[3] = "LEFT_BRACE"
  /\ ret.err # NoErr
  /\ ret.err.Message = "expected EOF after JSON value"

\* C4, as stated: the message is "expected end of input after JSON value".
C4_EndOfInputMessage ==
  IsFirstParse /\ (\E n \in 1..Len(Types) : TrailingTokenAt(n))
    => /\ ret.err # NoErr
       /\ ret.err.Message = "expected end of input after JSON value"

\* C5, as stated: when Parse fails at an unterminated string or at a string
\* with an invalid escape sequence, the error is of kind Lexical.
C5_StringFailureIsLexical ==
  IsFirstParse /\ ret.err # NoErr /\ FailedAt(View, Len(View))
    /\ RawRun[Len(RawRun)].err # NoErr
    /\ RawRun[Len(RawRun)].err.format
         \in {"unterminated string at %s", "invalid escape sequence '\\%c' at %s"}
    => ret.err.Type = "Lexical"

\* C6, amended: the number of a one-number input becomes an Integer exactly
\* when its text is a decimal integer literal in the signed 64-bit range, to
\* the value it writes; any other literal becomes a Float as long as it is
\* within the range of a 64-bit float; beyond that range Parse fails with
\* "invalid number format".
C6_IntegerOrFloatOrOutOfRange ==
  IsFirstParse /\ IsNumberInput =>
    IF FitsInt64(NumberText)
      THEN ret.err = NoErr /\ ret.value.t = "int64" /\ ret.value = NumberOf(NumberText)
    ELSE IF InFloat64Range(NumberText)
      THEN ret.err = NoErr /\ ret.value.t = "float64"
    ELSE /\ ret.err # NoErr
         /\ ret.err.Message = "invalid number format"

\* C6's case: an integer literal beyond the 64-bit range has become a Float.
C6_BigIntegerLiteralIsFloat ==
  /\ IsFirstParse
  /\ IsNumberInput
  /\ IsIntegerLiteral(NumberText)
  /\ ~FitsInt64(NumberText)
  /\ ret.err = NoErr
  /\ ret.value.t = "float64"

\* C6, as stated: a number token becomes an Integer when its text is an
\* integer literal that fits 64 bits and a Float in every other case.
C6_FloatInEveryOtherCase ==
  IsFirstParse /\ IsNumberInput =>
    /\ ret.err = NoErr
    /\ ret.value.t = IF FitsInt64(NumberText) THEN "int64" ELSE "float64"

C8_NoValueWithError ==
  ret.op \in {"Parse", "ParseValue"} /\ ret.err # NoErr => ret.value = Nil

\* C8's case: the failure is inside a container that is itself inside a
\* container, after a member or an element of the inner one was built.
C8_NestedFailureSeen ==
  /\ IsFirstParse
  /\ ret.err # NoErr
  /\ ret.value = Nil
  /\ FirstBad(Types) > 1
  /\ Len(GrammarAfter(Types, FirstBad(Types) - 1).stack) >= 2
  /\ GrammarAfter(Types, FirstBad(Types) - 1).mode = "sep"

\* C9, amended: the error of a failed Parse carries the position of the
\* token it is reported at; that is the position of the token's first byte
\* when the lexer produced the token, and the position the lexer had reached
\* when it failed otherwise.  For `{"key" "value"}` the column is 8.
C9_ErrorPositionIsTokenPosition ==
  IsFirstParse /\ ret.err # NoErr =>
    /\ ret.err.Position = ret.err.Token.Position
    /\ \E i \in 1..Len(View) :
         /\ FailedAt(View, i)
         /\ ret.err.Position = IF RawRun[i].err = NoErr THEN TokenStart(i)
                               ELSE LexerPosition(RawRun[i].l)
    /\ (lexer.input = MissingColonInput => ret.err.Position.Column = 8)

\* C9's case: the missing colon of `{"key" "value"}` is reported at column 8.
C9_MissingColonSeen ==
  /\ IsFirstParse
  /\ lexer.input = MissingColonInput
  /\ ret.err # NoErr
  /\ ret.err.Message = "expected ':'"
  /\ ret.err.Position = Position(1, 8, 7)

\* C9, as stated: the error carries the position of the first byte of the
\* token the parser was looking at when it failed.
C9_ErrorPositionIsFirstByte ==
  IsFirstParse /\ ret.err # NoErr =>
    \E i \in 1..Len(View) : FailedAt(View, i) /\ ret.err.Position = TokenStart(i)

\* C10, as stated, and counting a number out of range as a place where the
\* input stops being valid: the token a failed Parse reports is the earliest
\* at which the input stops being the start of a valid document.
C10_FirstErrorInDocumentOrder ==
  IsFirstParse /\ ret.err # NoErr =>
    \E i \in 1..Len(View) :
      /\ FailedAt(View, i)
      /\ GrammarAfter(Types, i - 1).mode # "dead"
      /\ NumbersRepresentable(View, i - 1)
      /\ \/ GrammarAfter(Types, i).mode = "dead"
         \/ View[i].Type = "NUMBER" /\ ~Representable(View[i].Value)

\* What Parse returns on a fresh parser of a fresh lexer of the input when
\* nothing else runs.
Alone(input) ==
  LET r == Parse(ParserNew(LexerNew(input)))
  IN  [op |-> "Parse", tok |-> ZeroToken, value |-> r.value, err |-> r.err]

HasRawControlByte(i) ==
  /\ RawRun[i].err = NoErr
  /\ RawRun[i].tok.Type = "STRING"
  /\ \E j \in 1..Len(StringBody(RawRun[i])) : StringBody(RawRun[i])[j] < Space

\* C12, as stated: Parse fails for every input in which a string holds a raw
\* control byte below 0x20.
C12_RawControlByteRejected ==
  IsFirstParse /\ (\E i \in 1..Len(RawRun) : HasRawControlByte(i)) => ret.err # NoErr

\* The number grammar as a predicate on texts: an optional minus, then 0 or
\* a digit from 1 to 9 with any digits after it, then optionally a point
\* with one digit or more, then optionally e or E, an optional sign and one
\* digit or more.
\* x[i..j] is one digit or more.
AllDigits(x, i, j) == i <= j /\ \A k \in i..j : x[k] \in Digit0..Digit9

\* x matches the grammar: its integer part ends at a, its fraction at b.
MatchesNumber(x) ==
  LET n == Len(x)
      s == IF n > 0 /\ x[1] = Minus THEN 1 ELSE 0
  IN  \E a \in (s + 1)..n :
        /\ AllDigits(x, s + 1, a)
        /\ (x[s + 1] = Digit0 => a = s + 1)
        /\ \E b \in a..n :
             /\ (b > a => x[a + 1] = Dot /\ AllDigits(x, a + 2, b))
             /\ \/ b = n
                \/ /\ x[b + 1] \in {LowerE, UpperE}
                   /\ \E c \in {b + 1, b + 2} :
                        /\ c < n
                        /\ (c = b + 2 => x[b + 2] \in {Plus, Minus})
                        /\ AllDigits(x, c + 1, n)

\* The length of the longest start of text that matches, 0 when none does.
LongestNumber(text) ==
  IF \E m \in 1..Len(text) : MatchesNumber(SubSeq(text, 1, m))
    THEN CHOOSE m \in 1..Len(text) :
           /\ MatchesNumber(SubSeq(text, 1, m))
           /\ \A k \in (m + 1)..Len(text) : ~MatchesNumber(SubSeq(text, 1, k))
    ELSE 0

\* The error the scan of a number at the start of text ends with, "" when
\* it ends with a token: a minus without digit, a leading 0 before a digit,
\* a point without digit, an exponent marker without digit.
NumberFault(text) ==
  LET m == LongestNumber(text)
      match == SubSeq(text, 1, m)
      next == IF m < Len(text) THEN text[m + 1] ELSE 0
      hasPoint == \E k \in 1..m : match[k] = Dot
      hasExponent == \E k \in 1..m : match[k] \in {LowerE, UpperE}
  IN  IF m = 0 THEN "invalid number format at %s"
      ELSE IF match \in {<<Digit0>>, <<Minus, Digit0>>} /\ next \in Digit0..Digit9
        THEN "numbers cannot have leading zeros at %s"
      ELSE IF next = Dot /\ ~hasPoint /\ ~hasExponent
        THEN "invalid number format: missing digits after decimal point at %s"
      ELSE IF next \in {LowerE, UpperE} /\ ~hasExponent
        THEN "invalid number format: missing digits in exponent at %s"
      ELSE ""

\* The bytes of the input from the lexer's current byte on.
Rest(l) == SubSeq(l.input, l.position.Offset + 1, Len(l.input))

\* C13: a call of NextToken that starts at a '-' or a digit returns a Number
\* token whose text is the longest start of the remaining input matching
\* the number grammar, and leaves the lexer behind that text; it fails
\* instead, with an Invalid token and the error naming the case, when the
\* '-' has no digit after it, when a leading 0 has a digit after it, and
\* when a '.' or an exponent marker (with its optional sign) has no digit
\* after it.
C13_NumberTokenIsLongestMatch ==
  [][~constructed' /\ lexer.ch \in {Minus} \cup (Digit0..Digit9) =>
       IF NumberFault(Rest(lexer)) # ""
         THEN /\ ret'.err # NoErr
              /\ ret'.err.format = NumberFault(Rest(lexer))
              /\ ret'.tok.Type = "INVALID"
         ELSE /\ ret'.err = NoErr
              /\ ret'.tok = Token("NUMBER",
                                  SubSeq(Rest(lexer), 1, LongestNumber(Rest(lexer))),
                                  lexer.position)
              /\ lexer'.position.Offset
                   = lexer.position.Offset + LongestNumber(Rest(lexer))]_vars

\* C13's case: the number at the start of the input has an exponent and
\* ends before the input does.
C13_NumberBeforeMoreSeen ==
  /\ ~constructed
  /\ ret.op = "NextToken"
  /\ ret.err = NoErr
  /\ ret.tok.Type = "NUMBER"
  /\ ret.tok.Position.Offset = 0
  /\ Len(ret.tok.Value) < Len(lexer.input)
  /\ \E k \in 1..Len(ret.tok.Value) : ret.tok.Value[k] = LowerE

\* The letters of the one-letter escapes.
SimpleEscapes == {Quote, Backslash, Slash, LowerB, LowerF, LowerN, LowerR, LowerT}

\* text[i] follows a backslash that is not itself escaped: the backslashes
\* right before i are odd in number.  text[1] is the opening quote.
Escaped(text, i) ==
  LET run == CHOOSE n \in 0..(i - 2) :
               /\ \A k \in (i - n)..(i - 1) : text[k] = Backslash
               /\ (n < i - 2 => text[i - n - 1] # Backslash)
  IN  run % 2 = 1

\* The four bytes after text[i] are hexadecimal digits.
FourHex(text, i) ==
  /\ i + 4 <= Len(text)
  /\ \A k \in (i + 1)..(i + 4) :
       text[k] \in (Digit0..Digit9) \cup (UpperA..UpperF) \cup (LowerA..LowerF)

\* The scan of the string that opens at text[1] stops at i: at the end of
\* the input or a byte 0, which the lexer reads as the end of the input, at
\* the closing quote, or at the letter of an escape that is not one.
StringStops(text, i) ==
  \/ i > Len(text)
  \/ text[i] = 0
  \/ ~Escaped(text, i) /\ text[i] = Quote
  \/ Escaped(text, i) /\ text[i] \notin SimpleEscapes \cup {LowerU}
  \/ Escaped(text, i) /\ text[i] = LowerU /\ ~FourHex(text, i)

\* Where the scan stops first.
StringStop(text) ==
  CHOOSE i \in 2..(Len(text) + 1) :
    StringStops(text, i) /\ \A k \in 2..(i - 1) : ~StringStops(text, k)

\* How the scan ends.  afterBackslash is how it ends at a byte 0 that
\* follows a backslash.
StringKind(text, afterBackslash) ==
  LET i == StringStop(text)
  IN  IF i > Len(text) THEN "unterminated"
      ELSE IF text[i] = 0
        THEN (IF Escaped(text, i) THEN afterBackslash ELSE "unterminated")
      ELSE IF ~Escaped(text, i) THEN "string"
      ELSE IF text[i] = LowerU THEN "unicode"
      ELSE "invalid escape"

\* The body of the string has no escape of a surrogate code point.
NoSurrogateEscape(text) ==
  \A i \in 3..(StringStop(text) - 1) :
    Escaped(text, i) /\ text[i] = LowerU =>
      LET cp == HexNat(SubSeq(text, i + 1, i + 4))
      IN  ~IsHighSurrogate(cp) /\ ~IsLowSurrogate(cp)

\* What a call of NextToken that starts at a quote returns follows the
\* escape rules.
StringStep(afterBackslash) ==
  ~constructed' /\ lexer.ch = Quote =>
    LET text == Rest(lexer)
        kind == StringKind(text, afterBackslash)
    IN  /\ kind = "string" =>
             /\ ret'.err = NoErr
             /\ ret'.tok.Type = "STRING"
             /\ ret'.tok.Position = lexer.position
             /\ NoSurrogateEscape(text) =>
                  ret'.tok.Value = Unescape(SubSeq(text, 2, StringStop(text) - 1))
        /\ kind = "invalid escape" =>
             /\ ret'.err # NoErr
             /\ ret'.err.format = "invalid escape sequence '\\%c' at %s"
        /\ kind = "unterminated" =>
             /\ ret'.err # NoErr
             /\ ret'.err.format = "unterminated string at %s"
        /\ kind # "string" => ret'.err # NoErr /\ ret'.tok.Type = "INVALID"

OnlyWhitespaceRemains ==
  /\ Rest(lexer) # <<>>
  /\ \A k \in 1..Len(Rest(lexer)) :
       Rest(lexer)[k] \in {Space, Tab, LineFeed, CarriageReturn}

LeadingWhitespace(text) ==
  CHOOSE n \in 0..Len(text) :
    /\ \A k \in 1..n : text[k] \in {Space, Tab, LineFeed, CarriageReturn}
    /\ (n < Len(text) => text[n + 1] \notin {Space, Tab, LineFeed, CarriageReturn})

\* The line feeds among the first offset bytes of input.
LineFeedsBefore(input, offset) == {k \in 1..offset : input[k] = LineFeed}

\* The position of the byte that has offset bytes of input before it: its
\* line is 1 plus the line feeds before it, its column 1 plus the bytes
\* since the last of them.
PositionAt(input, offset) ==
  LET feeds == LineFeedsBefore(input, offset)
      last == IF feeds = {} THEN 0 ELSE CHOOSE k \in feeds : \A j \in feeds : j <= k
  IN  Position(Cardinality(feeds) + 1, offset - last + 1, offset)

\* C15: a token NextToken returns without error, the EndOfInput token too,
\* carries the position of its own first byte, the first byte after the
\* whitespace the call starts at: the offset is the number of bytes before
\* it, the line 1 plus the number of line feeds before it, the column 1 plus
\* the number of bytes since the last line feed or the start of the input;
\* line and column are 1 at least and the offset is at most the length of
\* the input.
C15_TokenPositionIsFirstByte ==
  [][~constructed' /\ ret'.err = NoErr =>
       /\ ret'.tok.Position
            = PositionAt(lexer.input,
                         lexer.position.Offset + LeadingWhitespace(Rest(lexer)))
       /\ ret'.tok.Position.Line >= 1
       /\ ret'.tok.Position.Column >= 1
       /\ ret'.tok.Position.Offset <= Len(lexer.input)]_vars

\* C15's case: a token other than EndOfInput that begins on the second
\* line, after some bytes of that line.
C15_TokenOnSecondLineSeen ==
  /\ ~constructed
  /\ ret.op = "NextToken"
  /\ ret.err = NoErr
  /\ ret.tok.Type # "EOF"
  /\ ret.tok.Position.Line = 2
  /\ ret.tok.Position.Column > 1

\* The elements of a list of texts with " or " between them.
RECURSIVE OrList(_)
OrList(texts) ==
  IF Len(texts) = 1 THEN texts[1]
  ELSE texts[1] \o S(<<" ", "o", "r", " ">>) \o OrList(Tail(texts))

\* A section of the text of an error: a line of its own when present.
Section(present, line) == IF present THEN <<LineFeed>> \o line ELSE <<>>

\* The names of the kinds of error.
KindNames ==
  [Lexical |-> S(<<"L", "e", "x", "i", "c", "a", "l">>),
   Syntax |-> S(<<"S", "y", "n", "t", "a", "x">>),
   Semantic |-> S(<<"S", "e", "m", "a", "n", "t", "i", "c">>)]

\* The text of the error e as the format describes it.
TextOf(e) ==
  KindNames[e.Type] \o S(<<" ", "e", "r", "r", "o", "r", " ", "a", "t", " ",
                           "l", "i", "n", "e", " ">>)
    \o itoa(e.Position.Line) \o S(<<",", " ", "c", "o", "l", "u", "m", "n", " ">>)
    \o itoa(e.Position.Column) \o S(<<":", " ">>) \o e.Message
    \o Section(e.Expected # <<>>,
               S(<<"E", "x", "p", "e", "c", "t", "e", "d", " ">>) \o OrList(e.Expected)
                 \o S(<<",", " ", "b", "u", "t", " ", "f", "o", "u", "n", "d", " ">>)
                 \o e.Found)
    \o Section(e.JSONSnippet # <<>>, S(<<"N", "e", "a", "r", ":", " ">>) \o e.JSONSnippet)
    \o Section(e.Suggestion # <<>>,
               S(<<"S", "u", "g", "g", "e", "s", "t", "i", "o", "n", ":", " ">>)
                 \o e.Suggestion)

\* C17: the text of an error is the header "<Kind> error at line <L>,
\* column <C>: <message>", then the line "Expected <e1> or <e2>, but found
\* <found>", the line "Near: <snippet>" and the line "Suggestion: <text>",
\* in this order and joined by a line feed, each of the three there only
\* when the expected list, the snippet, the suggestion is not empty; the
\* kind is Lexical, Syntax or Semantic.
C17_ErrorTextFormat ==
  rendered # <<>> =>
    /\ ret.err.Type \in DOMAIN KindNames
    /\ rendered = TextOf(ret.err)

\* C17's case: the text of an error that has two expected tokens, a snippet
\* and a suggestion.
C17_AllSectionsSeen ==
  /\ rendered # <<>>
  /\ Len(ret.err.Expected) = 2
  /\ ret.err.JSONSnippet # <<>>
  /\ ret.err.Suggestion # <<>>

\* Line number n of a source text: the bytes between its line feeds number
\* n - 1 and n.
SourceLine(source, n) ==
  LET feeds == {k \in 1..Len(source) : source[k] = LineFeed}
      feed(i) == CHOOSE f \in feeds : Cardinality({g \in feeds : g <= f}) = i
      first == IF n = 1 THEN 1 ELSE feed(n - 1) + 1
      last == IF n > Cardinality(feeds) THEN Len(source) ELSE feed(n) - 1
  IN  SubSeq(source, first, last)

\* The snippet of an error at position in source: the line behind "<line>| ",
\* a line feed, and the caret under the column.
SnippetAt(source, position) ==
  LET prefix == itoa(position.Line) \o S(<<"|", " ">>)
  IN  prefix \o SourceLine(source, position.Line) \o <<LineFeed>>
        \o [i \in 1..(Len(prefix) + position.Column - 1) |-> Space] \o S(<<"^">>)

\* C18: the snippet of an error built with the source text, at the position
\* of the token the parser reports the error at, the end of the input too,
\* is the source line of that position behind "<line>| ", a line feed, as
\* many spaces as "<line>| " is long plus the column less one, and a caret.
C18_SnippetPointsAtColumn ==
  ret.op \in {"NewLexicalError", "NewSyntaxError", "NewSemanticError"}
    /\ ret.err.SourceInput # <<>> =>
      ret.err.JSONSnippet = SnippetAt(ret.err.SourceInput, ret.err.Position)

\* part occurs in text.
Contains(text, part) ==
  \E i \in 0..(Len(text) - Len(part)) : SubSeq(text, i + 1, i + Len(part)) = part

\* C19: the text of an error built by NewParseError(message, token) contains
\* the message, the position of the token written "line <L>, column <C>",
\* and the name of the token's kind.
C19_TextNamesTokenKind ==
  ret.op = "NewParseError" /\ rendered # <<>> =>
    /\ Contains(rendered, ret.err.Message)
    /\ Contains(rendered, PositionString(ret.err.Token.Position))
    /\ Contains(rendered, TokenTypeString(ret.err.Token.Type))

\* The tokens before token n start a document, with its numbers in range,
\* and after them a value must follow: at the start of the document, after
\* the colon of a member, after a comma of an array.
ValueExpectedAt(n) ==
  /\ n \in 1..Len(Types)
  /\ GrammarAfter(Types, n - 1).mode = "value"
  /\ NumbersRepresentable(View, n - 1)

\* Token n follows a comma of an array.
AfterArrayCommaAt(n) ==
  /\ ValueExpectedAt(n)
  /\ GrammarAfter(Types, n - 1).stack # <<>>
  /\ Head(GrammarAfter(Types, n - 1).stack) = "array"

\* Token n follows the '[' of an array, where a value or ']' may follow.
AfterOpenBracketAt(n) ==
  /\ n \in 1..Len(Types)
  /\ GrammarAfter(Types, n - 1).mode = "elem_or_close"
  /\ NumbersRepresentable(View, n - 1)

\* Parse failed with the message, at token n.
FailsWith(message, n) ==
  /\ ret.err # NoErr
  /\ ret.err.Message = message
  /\ FailedAt(View, n)

\* C20, amended: where a value must follow (at the start of the document,
\* after the colon of a member, after a comma of an array) an EndOfInput
\* token makes Parse fail with "unexpected end of input", so the empty
\* input and an input of whitespace only fail with it, and a '}', ']', ':',
\* ',' or Invalid token makes it fail with "expected JSON value", except the
\* ']' after a comma of an array, which fails with "trailing comma not
\* allowed"; after the '[' of an array a '}', ':', ',' or Invalid token
\* fails with "expected JSON value" and an EndOfInput token with
\* "expected ']'".
C20_NoValueAtDispatch ==
  IsFirstParse =>
    \A n \in 1..Len(Types) :
      /\ ValueExpectedAt(n) /\ Types[n] = "EOF" => FailsWith("unexpected end of input", n)
      /\ ValueExpectedAt(n)
           /\ Types[n] \in {"RIGHT_BRACE", "COLON", "COMMA", "INVALID"} =>
             FailsWith("expected JSON value", n)
      /\ ValueExpectedAt(n) /\ Types[n] = "RIGHT_BRACKET" =>
           FailsWith(IF AfterArrayCommaAt(n) THEN "trailing comma not allowed"
                     ELSE "expected JSON value", n)
      /\ AfterOpenBracketAt(n)
           /\ Types[n] \in {"RIGHT_BRACE", "COLON", "COMMA", "INVALID"} =>
             FailsWith("expected JSON value", n)
      /\ AfterOpenBracketAt(n) /\ Types[n] = "EOF" => FailsWith("expected ']'", n)

\* C20's case: an input of whitespace only.
C20_WhitespaceOnlySeen ==
  /\ IsFirstParse
  /\ lexer.input # <<>>
  /\ \A k \in 1..Len(lexer.input) :
       lexer.input[k] \in {Space, Tab, LineFeed, CarriageReturn}
  /\ ret.err # NoErr
  /\ ret.err.Message = "unexpected end of input"

\* C20 as stated: where a value must follow, every '}', ']', ':', ',' or
\* Invalid token fails with "expected JSON value".
C20_EveryOtherTokenExpectsValue ==
  IsFirstParse =>
    \A n \in 1..Len(Types) :
      ValueExpectedAt(n)
        /\ Types[n] \in {"RIGHT_BRACE", "RIGHT_BRACKET", "COLON", "COMMA", "INVALID"} =>
          FailsWith("expected JSON value", n)

\* The ASCII letters.
Letters == (UpperA..UpperZ) \cup (LowerA..LowerZ)

\* The bytes of the input after the whitespace the lexer stands at.
AfterWhitespace(l) ==
  SubSeq(Rest(l), LeadingWhitespace(Rest(l)) + 1, Len(Rest(l)))

\* The letters text starts with.
LetterRun(text) ==
  LET n == CHOOSE k \in 0..Len(text) :
             /\ \A i \in 1..k : text[i] \in Letters
             /\ (k < Len(text) => text[k + 1] \notin Letters)
  IN  SubSeq(text, 1, n)

\* C21: a call of NextToken that finds a letter consumes the whole run of
\* ASCII letters; it returns a Boolean token when the run is exactly true
\* or false, a Null token when it is exactly null, and otherwise fails with
\* "invalid keyword" and returns an Invalid token.
C21_KeywordIsWholeRun ==
  [][~constructed' /\ AfterWhitespace(lexer) # <<>>
       /\ AfterWhitespace(lexer)[1] \in Letters =>
       LET run == LetterRun(AfterWhitespace(lexer))
       IN  /\ lexer'.position.Offset
                = lexer.position.Offset + LeadingWhitespace(Rest(lexer)) + Len(run)
           /\ ret'.tok.Value = run
           /\ ret'.tok.Type = "BOOLEAN" <=>
                run \in {S(<<"t", "r", "u", "e">>), S(<<"f", "a", "l", "s", "e">>)}
           /\ ret'.tok.Type = "NULL" <=> run = S(<<"n", "u", "l", "l">>)
           /\ ret'.tok.Type \in {"BOOLEAN", "NULL"} <=> ret'.err = NoErr
           /\ ret'.err # NoErr =>
                /\ ret'.tok.Type = "INVALID"
                /\ ret'.err.format = "invalid keyword '%s' at %s"]_vars

\* C21's case: the letters nulll have been refused.
C21_LongerThanNullSeen ==
  /\ ~constructed
  /\ ret.op = "NextToken"
  /\ ret.err # NoErr
  /\ ret.err.format = "invalid keyword '%s' at %s"
  /\ ret.tok = Token("INVALID", S(<<"n", "u", "l", "l", "l">>), Position(1, 1, 0))

\* C22: the exit code of a handler is 0 before any call, and after any
\* calls of ParseString and ParseFile it is 0 when the last of them
\* returned no error and 1 when it returned one; a failure does not
\* outlast a later call that succeeds.
C22_ExitCodeFollowsLastCall ==
  /\ ret = NoRet => ExitCode(handler) = 0
  /\ ret.err = NoErr => ExitCode(handler) = 0
  /\ ret.err # NoErr => ExitCode(handler) = 1

\* C22's case: the caller has read 0 before any call, 1 after a call that
\* failed, and 0 again after a later call of ParseFile that succeeded.
C22_SuccessAfterFailureSeen ==
  /\ observed = <<0, 1, 0>>
  /\ ret.op = "ParseFile"
  /\ ret.err = NoErr

\* What the last call of NextToken in the run of the input returned.
LastOfRun == RawRun[Len(RawRun)]

\* The lexer fails on the input, and the tokens before the failure are the
\* start of a valid document whose numbers are representable, so that the
\* parse comes to the failure.
LexerFailureReached ==
  /\ LastOfRun.err # NoErr
  /\ FirstBad(Types) = Len(Types)
  /\ NumbersRepresentable(View, Len(View) - 1)

ValueEnd == IF Len(RawRun) = 1 THEN 0 ELSE RawRun[Len(RawRun) - 1].l.position.Offset

\* C24: Parse succeeds only if nothing but whitespace follows the top-level
\* value: when Parse returns a value, every byte of the input after the
\* last byte of the value is a space, a tab, a carriage return or a line
\* feed.
C24_OnlyWhitespaceAfterValue ==
  IsFirstParse /\ ret.err = NoErr =>
    \A i \in (ValueEnd + 1)..Len(lexer.input) :
      lexer.input[i] \in {Space, Tab, CarriageReturn, LineFeed}

\* C25, amended: for a Number token the lexer accepts, conversion yields an
\* Integer or a Float, and fails with "invalid number format" exactly when
\* the literal is beyond the range of a 64-bit float; an integer literal
\* outside the signed 64-bit range but within that of a 64-bit float becomes
\* a Float, whatever the number of its digits.
C25_ConvertsUnlessBeyondFloatRange ==
  IsFirstParse /\ IsNumberInput =>
    /\ InFloat64Range(NumberText) =>
         /\ ret.err = NoErr
         /\ ret.value.t \in {"int64", "float64"}
    /\ ~InFloat64Range(NumberText) =>
         /\ ret.err # NoErr
         /\ ret.value = Nil
         /\ ret.err.Message = "invalid number format"
    /\ IsIntegerLiteral(NumberText) /\ ~FitsInt64(NumberText)
         /\ InFloat64Range(NumberText) => ret.value.t = "float64"

\* C25's case: a literal with an exponent of three digits, within the range
\* of a 64-bit float, has become a Float.
C25_LargeExponentConvertedSeen ==
  /\ IsFirstParse
  /\ IsNumberInput
  /\ Decimal(NumberText).exp >= 100
  /\ ret.err = NoErr
  /\ ret.value.t = "float64"

\* C25, as stated: conversion of an accepted Number token never fails.
C25_ConversionNeverFails ==
  IsFirstParse /\ IsNumberInput =>
    /\ ret.err = NoErr
    /\ ret.value.t \in {"int64", "float64"}

\* The bytes a string body writes when every \u escape contributes the
\* UTF-8 encoding of the code point its four digits write, each escape on
\* its own.
RECURSIVE DecodeEach(_)
DecodeEach(body) ==
  IF body = <<>> THEN <<>>
  ELSE IF body[1] # Backslash THEN <<body[1]>> \o DecodeEach(Tail(body))
  ELSE IF body[2] # LowerU
    THEN <<EscapeChar(body[2])>> \o DecodeEach(SubSeq(body, 3, Len(body)))
  ELSE UTF8(HexNat(SubSeq(body, 3, 6))) \o DecodeEach(SubSeq(body, 7, Len(body)))

\* What a call of NextToken that starts at a quote returns, as to the \u
\* escapes of the string.
UnicodeStep ==
  ~constructed' /\ lexer.ch = Quote =>
    LET text == Rest(lexer)
        kind == StringKind(text, "unterminated")
    IN  /\ kind = "string" =>
             /\ ret'.err = NoErr
             /\ ret'.tok.Type = "STRING"
             /\ ret'.tok.Value = DecodeEach(SubSeq(text, 2, StringStop(text) - 1))
             /\ lexer'.position.Offset = lexer.position.Offset + StringStop(text)
        /\ kind = "unicode" => ret'.err # NoErr /\ ret'.tok.Type = "INVALID"

\* C26, as stated: a \u escape with four hexadecimal digits, of either
\* case, contributes the UTF-8 encoding of the code point with that value to
\* the token value, for every value from 0000 to FFFF, and the scan goes on
\* behind the fourth digit; when the input ends or a byte that is no
\* hexadecimal digit comes within the four digits, NextToken fails and
\* returns an Invalid token.
C26_EveryEscapeContributesItsCodePoint == [][UnicodeStep]_vars

\* What Parse returns for the input of this state when run in one piece.
ParseAtOnce == Parse(ParserNew(LexerNew(lexer.input)))

\* A Parse followed piece by piece returns what Parse returns.
RunAgreesWithParse ==
  pc = "done" =>
    /\ ret.value = ParseAtOnce.value
    /\ ret.err = ParseAtOnce.err
    /\ ThisParser = ParseAtOnce.p

\* A piece of the running Parse either ends the parse or takes the parser
\* to a later token, none beyond the end of the input, and leaves a piece
\* ready to run; the token it leaves is one the lexer produced, the lexer
\* not having gone back.  At a token that stands for a failure of the lexer
\* it ends the parse with an error, and on an input the lexer fails on the
\* parse ends with an error.
RunStep ==
  pc \notin {"idle", "done"} =>
    /\ pc' # "done" =>
         /\ Ready'
         /\ currentToken.Type \notin {"EOF", "INVALID"}
         /\ currentToken'.Position.Offset > currentToken.Position.Offset
         /\ currentToken'.Position.Offset <= Len(lexer.input)
         /\ lexer'.position.Offset >= lexer.position.Offset
    /\ currentToken.Type = "INVALID" => pc' = "done" /\ ret'.err # NoErr
    /\ pc' = "done" /\ LastOfRun.err # NoErr => ret'.err # NoErr

\* C27: Parse terminates on every input: a Parse that is called returns in
\* the end.  Every piece of a running Parse, a trip round the loop of an
\* object or of an array among them, takes the parser past at least one
\* token the lexer produced, to a token that begins later in the input, or
\* ends the parse; a token that stands for a failure of the lexer ends the
\* parse with an error.
C27_ParseTerminates == [][RunStep]_vars /\ <>(pc = "done")

\* C27's case: Parse has returned with an error at a failure of the lexer
\* that came after a comma inside a container, the loop having gone round.
C27_LexerFailureInsideLoopSeen ==
  /\ pc = "done"
  /\ ret.err # NoErr
  /\ ret.err.Token.Type = "INVALID"
  /\ \E i \in 2..(Len(Types) - 1) :
       Types[i] = "COMMA" /\ GrammarAfter(Types, i).stack # <<>>

\* What the first n calls of NextToken return, one after the other, from
\* lexer l on.
RECURSIVE CallsFrom(_, _)
CallsFrom(l, n) ==
  IF n = 0 THEN <<>>
  ELSE LET r == NextToken(l) IN <<r>> \o CallsFrom(r.l, n - 1)

\* The calls of NextToken on the input of this state: those up to the end
\* of the input or to the first failure, and two more.
Calls == CallsFrom(LexerNew(lexer.input), Len(RawRun) + 2)

\* The parser p holds two tokens the lexer produced one right after the
\* other, and its lexer is as the later of the two calls left it.
OneAhead(p) ==
  \E n \in 1..(Len(Calls) - 1) :
    /\ p.currentToken = Seen(Calls[n])
    /\ p.peekToken = Seen(Calls[n + 1])
    /\ p.lexer = Calls[n + 1].l

\* The tokens from token i on begin with a complete value, whose numbers
\* are representable.
ValueAt(i) ==
  \E n \in i..(Len(Types) - 1) :
    /\ GrammarAfter(SubSeq(Types, i, n), n - i + 1).mode = "end"
    /\ \A k \in i..n : View[k].Type = "NUMBER" => Representable(View[k].Value)

\* The last token of the value that begins at token i.
LastOf(i) ==
  CHOOSE n \in i..(Len(Types) - 1) :
    GrammarAfter(SubSeq(Types, i, n), n - i + 1).mode = "end"

\* The value the tokens i to n write, a string as the lexer decoded it.
ValueBetween(i, n) ==
  ValueOf(SubSeq(Types, i, n), SubSeq(LexedLeaves(RawRun), i, n))

\* A step of the parser keeps it one token ahead; a first ParseValue on an
\* input that begins with a value returns that value and leaves the parser
\* at the token after it; and a ParseValue that follows it, when a second
\* value follows the first, returns the second value and leaves the parser
\* at the token after that.
LookaheadStep ==
  /\ constructed' =>
       OneAhead([lexer |-> lexer', currentToken |-> currentToken', peekToken |-> peekToken'])
  /\ constructed /\ ncalls = 0 /\ ret'.op = "ParseValue" /\ ValueAt(1) =>
       /\ ret'.err = NoErr
       /\ ret'.value = ValueBetween(1, LastOf(1))
       /\ currentToken' = Seen(Calls[LastOf(1) + 1])
       /\ peekToken' = Seen(Calls[LastOf(1) + 2])
  /\ constructed /\ ncalls = 0 /\ ret'.op = "ParseValue" /\ ret'.err = NoErr => ValueAt(1)
  /\ constructed /\ ncalls = 1 /\ ret.op = "ParseValue" /\ ret.err = NoErr
       /\ ret'.op = "ParseValue" /\ ValueAt(LastOf(1) + 1) =>
       /\ ret.value = ValueBetween(1, LastOf(1))
       /\ ret'.err = NoErr
       /\ ret'.value = ValueBetween(LastOf(1) + 1, LastOf(LastOf(1) + 1))
       /\ currentToken' = Seen(Calls[LastOf(LastOf(1) + 1) + 1])

\* C28: from construction on, peekToken is the token the lexer produced
\* right after currentToken; after a successful parseValue currentToken is
\* the first token after the value, the value's tokens and no others having
\* been consumed; so ParseValue on two values in a row returns the first,
\* and called again the second.
C28_OneTokenAhead == [][LookaheadStep]_vars

\* C28's case: the second ParseValue on an input of two values has returned
\* the second, an object or an array, and the parser is at the end of the
\* input.
C28_SecondValueReturnedSeen ==
  /\ constructed
  /\ ncalls = 2
  /\ ret.op = "ParseValue"
  /\ ret.err = NoErr
  /\ ValueAt(1)
  /\ ValueAt(LastOf(1) + 1)
  /\ ret.value = ValueBetween(LastOf(1) + 1, LastOf(LastOf(1) + 1))
  /\ ret.value.t \in {"object", "array"}
  /\ ret.value # ValueBetween(1, LastOf(1))
  /\ currentToken.Type = "EOF"

\* A step taken by a lexer that has returned the end of input: whatever is
\* called next, the lexer is left as it was and the same token comes back.
EndOfInputStep ==
  ~constructed /\ ret.op = "NextToken" /\ ret.tok.Type = "EOF" =>
    /\ ret.err = NoErr
    /\ ~HasMore(lexer)
    /\ ret'.op = "NextToken"
    /\ ret'.tok.Type = "EOF"
    /\ ret'.tok.Position = ret.tok.Position
    /\ ret'.tok = ret.tok
    /\ ret'.err = NoErr
    /\ ~HasMore(lexer')
    /\ lexer'.current = lexer.current
    /\ lexer'.position = lexer.position
    /\ lexer' = lexer

\* C29: once NextToken has returned the end of input, every later call of
\* NextToken returns the end of input at the same position and no error,
\* HasMore stays false, and the cursor and the position of the lexer no
\* longer change.
C29_EndOfInputAbsorbing == [][EndOfInputStep]_vars

\* C29's case: NextToken has been called twice after the end of input was
\* returned, on an input that starts with a structural character.
C29_CalledAgainAfterEndSeen ==
  /\ ~constructed
  /\ ncalls = 2
  /\ ret.op = "NextToken"
  /\ ret.tok.Type = "EOF"
  /\ ret.tok.Position.Offset > 0
  /\ structural(lexer.input[1]) # ""
  /\ ~HasMore(lexer)

\* A step of a parser that is used again.  A Parse that returns a value
\* leaves the parser at the end of input; and a parser at the end of input
\* answers Parse and ParseValue alike with the error of parseValue's case
\* EOF and no value, and reads no token.
SingleUseStep ==
  /\ ret'.op = "Parse" /\ ret'.err = NoErr => currentToken'.Type = "EOF"
  /\ constructed /\ ret.op = "Parse" /\ ret.err = NoErr => currentToken.Type = "EOF"
  /\ constructed /\ currentToken.Type = "EOF" /\ ret'.op \in {"Parse", "ParseValue"} =>
       /\ ret'.err = NewParseError("unexpected end of input", currentToken)
       /\ ret'.err # NoErr
       /\ ret'.value = Nil
       /\ ret.op = "Parse" /\ ret.err = NoErr => ret'.value # ret.value
       /\ lexer' = lexer
       /\ currentToken' = currentToken
       /\ peekToken' = peekToken

\* C30: after Parse has returned a value the current token is the end of
\* input, and Parse or ParseValue called again on the same parser fails
\* with "unexpected end of input": it never returns the earlier value again
\* and never reads the input again.
C30_ParserIsSingleUse == [][SingleUseStep]_vars

\* C30's case: the second call on a parser whose input is a valid document
\* with an object or an array has failed at the end of input.
C30_SecondCallFailedSeen ==
  /\ constructed
  /\ ncalls = 2
  /\ ParseAtOnce.err = NoErr
  /\ ParseAtOnce.value.t \in {"object", "array"}
  /\ ret.err = NewParseError("unexpected end of input", currentToken)
  /\ ret.value = Nil
  /\ lexer = ParseAtOnce.p.lexer

====
